---- MODULE Spec2Model ----
(***************************************************************************)
(* A model of the CtrlAI guardrail proxy (github.com/ctrlai/ctrlai):       *)
(*   - the hash-chained audit log       (internal/audit)                   *)
(*   - the rule engine                  (internal/engine)                  *)
(*   - the request handler              (internal/proxy/proxy.go)          *)
(*   - the response rewriters           (internal/proxy)                   *)
(* Each part has its own specification over the same variables.           *)
(***************************************************************************)
EXTENDS Integers, Sequences, FiniteSets, TLC

(***************************************************************************)
(* Bounds                                                                  *)
(***************************************************************************)
NumTasks == 2
MaxDay == 2
MaxAppends == 3
MaxRestarts == 1
MaxTamper == 1

Tasks == 1..NumTasks
Days == 1..MaxDay
NoTask == 0
NoFile == 0

(***************************************************************************)
(* Audit log: entries and the hash chain                                   *)
(***************************************************************************)

\* A hash is modelled as the tuple of the fields that are hashed: an
\* injective function, as SHA-256 is taken to be.
GenesisPrev == <<"sha256:genesis">>

computeHash(e) == <<e.prevHash, e.seq, e.ts, e.agent, e.tool, e.decision>>

verifyEntry(e) == e.hash = computeHash(e)

Entry(seq, ts, req, prev) ==
    LET e == [seq |-> seq, ts |-> ts, agent |-> req.agent, type |-> req.type,
              tool |-> req.tool, decision |-> req.decision,
              prevHash |-> prev, hash |-> <<>>]
    IN [e EXCEPT !.hash = computeHash(e)]

\* The callers of append: LogToolCall, LogKill, LogLifecycle.
LogToolCall(agent, tool, decision) ==
    [agent |-> agent, type |-> "tool_call", tool |-> tool, decision |-> decision]

LogKill(agent) ==
    [agent |-> agent, type |-> "kill", tool |-> "", decision |-> "block"]

LogLifecycle(event) ==
    [agent |-> "", type |-> "lifecycle", tool |-> event, decision |-> "info"]

NoReq == LogLifecycle("")

createGenesis(day) == Entry(0, day, LogLifecycle("genesis"), GenesisPrev)

NoEntry == Entry(0, 0, NoReq, GenesisPrev)

VARIABLES
    today,      \* the current UTC day (time.Now)
    genesis,    \* genesis.json: <<>> or <<entry>>
    files,      \* day -> the lines of <day>.jsonl
    created,    \* the days whose .jsonl file exists
    index,      \* the sqlite index: set of <<seq, hash>> rows, seq is the key
    aSeq,       \* AuditLog.seq
    aLastHash,  \* AuditLog.lastHash
    aFileDate,  \* AuditLog.fileDate (NoFile: no file open)
    mu,         \* AuditLog.mu: the task holding it, or NoTask
    apc,        \* task -> position inside append
    areq,       \* task -> the entry handed to append
    aentry,     \* task -> the entry append has filled in
    verifyRes,  \* the result of the last VerifyChain call
    hist,       \* history of the run, read by the properties only
    eCustom,    \* Engine.customRules
    eToggles,   \* Engine.builtinToggles
    eRules,     \* Engine.rules
    eLast,      \* the last Evaluate call: its arguments, the rules it read, its result
    eCall,      \* the last call on the engine: its arguments, the engine it found, its result
    eFile,      \* rules.yaml as loadRulesFromFile finds it
    emu,        \* Engine.mu: the task holding Lock, the tasks holding RLock
    epc,        \* task -> position inside an Engine method
    eloc,       \* task -> the locals of the method it is in
    eStore,     \* the slice being stored into Engine.rules, <<>> when none is
    eReload,    \* the last Reload: the engine before it, after it, its error
    rwIn,       \* the arguments of a rewrite
    rwOut,      \* the value the rewrite returned
    killed,     \* KillSwitch.killed (the agents in the in-memory set)
    kEntries,   \* KillSwitch.entries (the agents of the entries, in order)
    ksFile,     \* killed.yaml: whether it parses, the agents it lists in order
    kEvents,    \* the fsnotify events on killed.yaml the watcher has not read yet
    cli,        \* the `ctrlai kill` / `ctrlai revive` process: position, its KillSwitch
    dash,       \* the dashboard handler: position, the agent of its request
    regStatus,  \* Registry.agents: agent -> Status ("" when it has no record)
    kRuns,      \* the number of runs of other processes on killed.yaml
    kLast,      \* the last call on the proxy's KillSwitch, the state it found
    kRead,      \* the last read of killed.yaml by Reload, and the write it met
    kAdded,     \* the agents another process listed and nobody revived since
    hpc,        \* handler -> position of its request
    hreq,       \* handler -> the request it is handling
    nreq,       \* the number of requests received
    served,     \* the request whose handler returned last, and what it did
    rAgents,    \* Registry.agents: agent -> its Agent (NoAgent when it has no record)
    rmu,        \* Registry.mu: the task holding it, 0 when free
    rpc,        \* task -> position inside Registry.Touch, and its arguments
    rCalls,     \* the number of registry calls made
    rClock,     \* the reading of time.Now
    rTouched,   \* agent -> the number of Touch calls that returned
    rLast,      \* the last Touch that returned: its arguments, the agent before and after
    bIn,        \* the stream of bufferAll: its API, the frames upstream sends, whether it closes
    bpc,        \* the position of handleStreaming: idle, in bufferAll's select, done
    bRead,      \* the number of frames the parser goroutine has read
    bEvents,    \* the events slice of parseSSEStream
    bCh,        \* the channel ch of bufferAll: <<>> or the result the parser sent
    bOut,       \* what handleStreaming did: the events of bufferAll, the calls, the frames sent
    wEvents,    \* fsWatcher.Events: the events processEvents has not taken yet
    wPosted,    \* the number of file system events so far
    wLast,      \* the last event processEvents took, and the callbacks it invoked
    fpc,        \* Follow of `ctrlai audit tail -f`: idle, following, returned
    fLastSeq,   \* lastSeq of Follow
    fStart,     \* a.seq when Follow started
    fDelivered, \* the seqs of the entries handed to the callback, in order
    fCancelled, \* whether the context of Follow is cancelled
    connections, \* wsHub.connections
    broadcastCh, \* wsHub.broadcastCh, the messages waiting for the hub
    send,        \* wsConn.send of each client, the messages waiting for writePump
    sendClosed,  \* how many times close(conn.send) ran for each client
    hubpc,       \* wsHub.run: at its select, or in the range over connections
    hubMsg,      \* the message the range is delivering
    hubRest,     \* the connections the range has not visited yet
    hubPanic,    \* the run-time panic that ended the process, "" when none
    wspc,        \* each client: none, upgraded, reading, closing, gone
    wpump,       \* writePump of each client: idle, running, exited
    wsGot,       \* the newest message written to each client's socket
    hubSent,     \* how many messages broadcast was called with
    hubLast,     \* the last range: its message, who was connected, who was full
    dropAt,      \* the message whose delivery found the client's queue full
    apiPc,       \* each dashboard handler: idle, or save (the engine call returned nil)
    apiCalls,    \* how many POSTs on /api/rules and /api/rules/delete came in
    apiAdded,    \* the names of the rules AddRule returned nil for
    apiRemoved   \* the names RemoveRule was called with

auditVars == <<today, genesis, files, created, index, aSeq, aLastHash,
               aFileDate, mu, apc, areq, aentry, verifyRes, hist>>

engineTaskVars == <<eFile, emu, epc, eloc, eStore, eReload>>

engineVars == <<eCustom, eToggles, eRules, eLast, eCall, engineTaskVars>>

bufferVars == <<bIn, bpc, bRead, bEvents, bCh, bOut>>

rewriteVars == <<rwIn, rwOut, bufferVars>>

killFileVars == <<kEvents, cli, dash, regStatus, kRuns, kLast, kRead, kAdded>>

proxyVars == <<killed, kEntries, ksFile, hpc, hreq, nreq, served, killFileVars>>

registryVars == <<rAgents, rmu, rpc, rCalls, rClock, rTouched, rLast>>

watcherVars == <<wEvents, wPosted, wLast>>

followVars == <<fpc, fLastSeq, fStart, fDelivered, fCancelled>>

hubVars == <<connections, broadcastCh, send, sendClosed, hubpc, hubMsg, hubRest,
             hubPanic, wspc, wpump, wsGot, hubSent, hubLast, dropAt>>

apiVars == <<apiPc, apiCalls, apiAdded, apiRemoved>>

serviceVars == <<watcherVars, followVars, hubVars, apiVars>>

vars == <<auditVars, engineVars, rewriteVars, proxyVars, registryVars, serviceVars>>

\* ---- reading the directory ----

RECURSIVE ConcatDays(_)
ConcatDays(d) ==
    IF d > MaxDay THEN <<>>
    ELSE (IF d \in created THEN files[d] ELSE <<>>) \o ConcatDays(d + 1)

\* readAllEntries(0): the files in lexicographic (date) order, concatenated.
readAllEntries == ConcatDays(1)

\* readLastEntry: the last line of a file, <<>> when the file is empty.
readLastEntry(d) == IF Len(files[d]) = 0 THEN <<>> ELSE <<files[d][Len(files[d])]>>

MaxOf(S) == CHOOSE x \in S : \A y \in S : y <= x

\* ---- recovery ----

\* loadGenesis: adopt seq and hash of the genesis entry.
loadGenesis == [seq |-> genesis[1].seq, lastHash |-> genesis[1].hash]

recoverState_SeqOnly(g) ==
    IF created = {} THEN g
    ELSE LET last == readLastEntry(MaxOf(created))
         IN IF last = <<>> THEN g
            ELSE [seq |-> last[1].seq, lastHash |-> g.lastHash]

\* recoverState: the last entry of the most recent file overrides the
\* genesis state; no file, or an empty last file, leaves it.
recoverState(g) ==
    IF created = {} THEN g
    ELSE LET last == readLastEntry(MaxOf(created))
         IN IF last = <<>> THEN g
            ELSE [seq |-> last[1].seq, lastHash |-> last[1].hash]

\* reindex: insert every entry whose seq exceeds the index's max seq.
lastSeq == IF index = {} THEN 0 ELSE MaxOf({r[1] : r \in index})

insertRow(idx, e) == {r \in idx : r[1] # e.seq} \cup {<<e.seq, e.hash>>}

RECURSIVE insertAll(_, _, _)
insertAll(idx, entries, after) ==
    IF entries = <<>> THEN idx
    ELSE insertAll(IF Head(entries).seq > after THEN insertRow(idx, Head(entries)) ELSE idx,
                   Tail(entries), after)

reindex ==
    IF created = {} \/ readLastEntry(MaxOf(created)) = <<>> THEN index
    ELSE insertAll(index, readAllEntries, lastSeq)

\* ---- VerifyChain ----

RECURSIVE VerifyFrom(_, _)
VerifyFrom(entries, i) ==
    IF i >= Len(entries)
    THEN [valid |-> TRUE, checked |-> Len(entries), brokenAt |-> 0]
    ELSE LET e == entries[i + 1]
         IN IF e.hash # computeHash(e)
            THEN [valid |-> FALSE, checked |-> i + 1, brokenAt |-> i]
            ELSE IF i > 0 /\ e.prevHash # entries[i].hash
            THEN [valid |-> FALSE, checked |-> i + 1, brokenAt |-> i]
            ELSE VerifyFrom(entries, i + 1)

RECURSIVE VerifyHashesOnly(_, _)
VerifyHashesOnly(entries, i) ==
    IF i >= Len(entries)
    THEN [valid |-> TRUE, checked |-> Len(entries), brokenAt |-> 0]
    ELSE IF entries[i + 1].hash # computeHash(entries[i + 1])
         THEN [valid |-> FALSE, checked |-> i + 1, brokenAt |-> i]
         ELSE VerifyHashesOnly(entries, i + 1)

VerifyChain_NoLinkage(entries) == VerifyHashesOnly(entries, 0)

VerifyChain(entries) ==
    IF Len(entries) = 0
    THEN [valid |-> TRUE, checked |-> 0, brokenAt |-> 0]
    ELSE VerifyFrom(entries, 0)

NoVerify == [done |-> FALSE, valid |-> TRUE, checked |-> 0, brokenAt |-> 0]

\* ---- history (not program state) ----

NoHist == [appends |-> 0, failed |-> FALSE, restarts |-> 0, tampers |-> 0,
           omitted |-> FALSE, okAfterOmit |-> FALSE,
           first |-> <<>>,
           tailAtStart |-> <<>>, anyAtStart |-> FALSE]

\* The last entry of the most recent daily file, as the directory shows it.
DirTail ==
    IF created = {} THEN <<>>
    ELSE LET d == MaxOf(created) IN
         IF files[d] = <<>> THEN <<>> ELSE <<files[d][Len(files[d])]>>

DirHasEntry == \E d \in created : files[d] # <<>>

(***************************************************************************)
(* Audit log: Init and actions                                             *)
(***************************************************************************)

\* audit.New on a fresh directory: genesis written, nothing appended yet.
AuditInit ==
    /\ today = 1
    /\ genesis = <<createGenesis(1)>>
    /\ files = [d \in Days |-> <<>>]
    /\ created = {}
    /\ index = {}
    /\ aSeq = 0
    /\ aLastHash = createGenesis(1).hash
    /\ aFileDate = NoFile
    /\ mu = NoTask
    /\ apc = [t \in Tasks |-> "idle"]
    /\ areq = [t \in Tasks |-> NoReq]
    /\ aentry = [t \in Tasks |-> NoEntry]
    /\ verifyRes = NoVerify
    /\ hist = NoHist

\* time passes: a new UTC day begins.
AdvanceDay ==
    /\ ~verifyRes.done
    /\ today < MaxDay
    /\ today' = today + 1
    /\ UNCHANGED <<genesis, files, created, index, aSeq, aLastHash,
                   aFileDate, mu, apc, areq, aentry, verifyRes, hist>>
    /\ UNCHANGED <<engineVars, rewriteVars, proxyVars, registryVars, serviceVars>>

\* A task calls LogToolCall / LogKill / LogLifecycle.
AuditReqs == {LogToolCall("main", "exec", "allow")}

\* a.mu.Lock()
MutexFree(t) == mu = NoTask

\* append, up to the call of writeToFile:
\* Lock; a.seq++; e.Seq, e.Timestamp, e.PrevHash, e.Hash
AppendBegin(t, req) ==
    /\ ~verifyRes.done
    /\ apc[t] = "idle"
    /\ hist.appends < MaxAppends
    /\ MutexFree(t)
    /\ mu' = t
    /\ areq' = [areq EXCEPT ![t] = req]
    /\ aSeq' = aSeq + 1
    /\ aentry' = [aentry EXCEPT ![t] = Entry(aSeq + 1, today, req, aLastHash)]
    /\ apc' = [apc EXCEPT ![t] = "filled"]
    /\ hist' = [hist EXCEPT !.appends = @ + 1,
                            !.first = IF @ = <<>> THEN <<aentry'[t]>> ELSE @]
    /\ UNCHANGED <<today, genesis, files, created, index, aLastHash,
                   aFileDate, verifyRes>>
    /\ UNCHANGED <<engineVars, rewriteVars, proxyVars, registryVars, serviceVars>>

\* writeToFile, with the outcome of its system calls:
\*   "ok"    every call succeeds
\*   "open"  OpenFile fails (only when a file must be opened)
\*   "write" File.Write fails, nothing is written
\*   "sync"  File.Sync fails after the line was written
WriteOutcomes == {"ok", "open", "write", "sync"}

MustOpen == aFileDate = NoFile \/ aFileDate # today

LineWritten(outcome) == outcome \in {"ok", "sync"}

AppendWrite(t, outcome) ==
    /\ ~verifyRes.done
    /\ apc[t] = "filled"
    /\ outcome = "open" => MustOpen
    /\ IF MustOpen /\ outcome # "open"
       THEN /\ created' = created \cup {today}
            /\ aFileDate' = today
       ELSE UNCHANGED <<created, aFileDate>>
    /\ IF LineWritten(outcome)
       THEN files' = [files EXCEPT ![today] = Append(@, aentry[t])]
       ELSE UNCHANGED files
    /\ IF outcome = "ok"
       THEN /\ apc' = [apc EXCEPT ![t] = "written"]
            /\ UNCHANGED <<mu, areq, aentry>>
            /\ hist' = [hist EXCEPT !.okAfterOmit = @ \/ hist.omitted]
       ELSE \* slog.Error; return (the deferred Unlock runs)
            /\ apc' = [apc EXCEPT ![t] = "idle"]
            /\ areq' = [areq EXCEPT ![t] = NoReq]
            /\ aentry' = [aentry EXCEPT ![t] = NoEntry]
            /\ mu' = NoTask
            /\ hist' = [hist EXCEPT !.failed = TRUE,
                                    !.omitted = @ \/ ~LineWritten(outcome)]
    /\ UNCHANGED <<today, genesis, index, aSeq, aLastHash, verifyRes>>
    /\ UNCHANGED <<engineVars, rewriteVars, proxyVars, registryVars, serviceVars>>

\* index.insert (best effort), a.lastHash = e.Hash, Unlock
AppendFinish(t, indexed) ==
    /\ ~verifyRes.done
    /\ apc[t] = "written"
    /\ index' = IF indexed THEN insertRow(index, aentry[t]) ELSE index
    /\ aLastHash' = aentry[t].hash
    /\ mu' = NoTask
    /\ apc' = [apc EXCEPT ![t] = "idle"]
    /\ areq' = [areq EXCEPT ![t] = NoReq]
    /\ aentry' = [aentry EXCEPT ![t] = NoEntry]
    /\ UNCHANGED <<today, genesis, files, created, aSeq, aFileDate, verifyRes, hist>>
    /\ UNCHANGED <<engineVars, rewriteVars, proxyVars, registryVars, serviceVars>>

\* The process stops (at any point) and is started again: audit.New on the
\* existing directory.
Restart ==
    /\ ~verifyRes.done
    /\ hist.restarts < MaxRestarts
    /\ LET st == recoverState(loadGenesis) IN
       /\ aSeq' = st.seq
       /\ aLastHash' = st.lastHash
    /\ index' = reindex
    /\ aFileDate' = NoFile
    /\ mu' = NoTask
    /\ apc' = [t \in Tasks |-> "idle"]
    /\ areq' = [t \in Tasks |-> NoReq]
    /\ aentry' = [t \in Tasks |-> NoEntry]
    /\ hist' = [hist EXCEPT !.restarts = @ + 1, !.first = <<>>,
                            !.tailAtStart = DirTail, !.anyAtStart = DirHasEntry]
    /\ UNCHANGED <<today, genesis, files, created, verifyRes>>
    /\ UNCHANGED <<engineVars, rewriteVars, proxyVars, registryVars, serviceVars>>

\* ctrlai audit verify. The run is observed up to the verification: nothing
\* is appended after it.
Verify ==
    /\ ~verifyRes.done
    /\ LET r == VerifyChain(readAllEntries) IN
       verifyRes' = [done |-> TRUE, valid |-> r.valid, checked |-> r.checked,
                     brokenAt |-> r.brokenAt]
    /\ UNCHANGED <<today, genesis, files, created, index, aSeq, aLastHash,
                   aFileDate, mu, apc, areq, aentry, hist>>
    /\ UNCHANGED <<engineVars, rewriteVars, proxyVars, registryVars, serviceVars>>

\* Someone edits a line of a daily file by hand.
TamperFields == {"agent", "hash", "prevHash", "agent+hash"}

Tampered(e, field) ==
    CASE field = "agent" -> [e EXCEPT !.agent = "tampered"]
      [] field = "hash" -> [e EXCEPT !.hash = <<"sha256:tampered">>]
      [] field = "prevHash" -> [e EXCEPT !.prevHash = <<"sha256:tampered">>]
      [] field = "agent+hash" ->
            [e EXCEPT !.agent = "tampered",
                      !.hash = computeHash([e EXCEPT !.agent = "tampered"])]

Tamper(d, i, field) ==
    /\ ~verifyRes.done
    /\ hist.tampers < MaxTamper
    /\ d \in created
    /\ i \in 1..Len(files[d])
    /\ files' = [files EXCEPT ![d][i] = Tampered(@, field)]
    /\ hist' = [hist EXCEPT !.tampers = @ + 1]
    /\ UNCHANGED <<today, genesis, created, index, aSeq, aLastHash,
                   aFileDate, mu, apc, areq, aentry, verifyRes>>
    /\ UNCHANGED <<engineVars, rewriteVars, proxyVars, registryVars, serviceVars>>

(***************************************************************************)
(* Rule engine                                                             *)
(***************************************************************************)
MaxRules == 2

Agents == {"main", "default"}

ToolNames == {"exec", "Exec", "read"}

Commands == {"", "ls", "rm -rf /"}

\* A tool call as the extractors hand it to the engine. cmd is the string
\* argument "command" ("" when the call has none); id and index are read by
\* the rewriters only.
ToolCall(id, name, cmd, idx) == [id |-> id, name |-> name, cmd |-> cmd, index |-> idx]

\* strings.EqualFold on the tool names above.
ToLower(s) == IF s = "Exec" THEN "exec" ELSE s

EqualFold(a, b) == ToLower(a) = ToLower(b)

\* The two command patterns in use, by the commands they accept.
DestructiveRegex == "rm\\s+-rf\\s+/|mkfs|dd\\s+if="

LsRegex == "^ls$"

BadRegex == "("

MatchString(pat, str) ==
    CASE pat = DestructiveRegex -> str = "rm -rf /"
      [] pat = LsRegex -> str = "ls"
      [] OTHER -> FALSE

\* compileMatcher: regexp.Compile fails on a malformed pattern.
compileMatcher(r) == r.commandRegex # BadRegex

Rule(name, tool, agent, regex, action, message, builtin) ==
    [name |-> name, tool |-> tool, agent |-> agent, commandRegex |-> regex,
     action |-> action, message |-> message, builtin |-> builtin]

\* Two rules of the built-in catalogue: one that is on by default and one
\* that is off by default.
builtinRules ==
    <<Rule("block_destructive_commands", {"exec"}, "", DestructiveRegex,
           "block", "destructive command", TRUE),
      Rule("block_unsolicited_messages", {"message"}, "", "",
           "block", "unsolicited message", TRUE)>>

defaultBuiltinToggles ==
    [n \in {"block_destructive_commands", "block_unsolicited_messages"} |->
        n = "block_destructive_commands"]

\* matchesRule: every non-empty field of the match must hold. The fields
\* tool (any of the list, case-insensitive), agent (exact) and command_regex
\* are modelled; action, path, arg_contains and url_regex are conjuncts of
\* the same form and are left empty in every rule of this model.
matchesRule(r, agentID, tc) ==
    /\ (r.tool # {} => \E t \in r.tool : EqualFold(t, tc.name))
    /\ (r.agent # "" => r.agent = agentID)
    /\ (r.commandRegex # "" => tc.cmd # "" /\ MatchString(r.commandRegex, tc.cmd))

Decision(action, rule, message) == [action |-> action, rule |-> rule, message |-> message]

RECURSIVE Evaluate_LastMatch(_, _, _)
Evaluate_LastMatch(rules, agentID, tc) ==
    IF rules = <<>> THEN Decision("allow", "", "")
    ELSE LET r == rules[Len(rules)] IN
         IF matchesRule(r, agentID, tc)
         THEN Decision(r.action, r.name, r.message)
         ELSE Evaluate_LastMatch(SubSeq(rules, 1, Len(rules) - 1), agentID, tc)

\* Engine.Evaluate over e.rules: the first matching rule wins, default allow.
RECURSIVE Evaluate(_, _, _)
Evaluate(rules, agentID, tc) ==
    IF rules = <<>> THEN Decision("allow", "", "")
    ELSE LET r == Head(rules) IN
         IF matchesRule(r, agentID, tc)
         THEN Decision(r.action, r.name, r.message)
         ELSE Evaluate(Tail(rules), agentID, tc)

rebuild_CustomFirst(toggles, custom) ==
    custom \o SelectSeq(builtinRules, LAMBDA r : toggles[r.name])

\* rebuild: the enabled built-in rules in catalogue order, then the custom
\* rules.
rebuild(toggles, custom) ==
    SelectSeq(builtinRules, LAMBDA r : toggles[r.name]) \o custom

\* ---- rules.yaml and loading ----

BuiltinNames == {builtinRules[i].name : i \in DOMAIN builtinRules}

\* rules.yaml: kind is "missing", "unreadable", "unparsable" or "ok"; rules is
\* its rules list and builtin its toggle map (a function on some of the
\* built-in names; the empty function when the key is absent).
RulesFile(kind, rules, builtin) == [kind |-> kind, rules |-> rules, builtin |-> builtin]

NoToggles == <<>>

NoRulesFile == RulesFile("missing", <<>>, NoToggles)

\* loadRulesFromFile: a missing file is no error and gives no rules.
loadRulesFromFile(f) ==
    CASE f.kind = "missing" -> [err |-> FALSE, rules |-> <<>>, builtin |-> NoToggles]
      [] f.kind = "ok" -> [err |-> FALSE, rules |-> f.rules, builtin |-> f.builtin]
      [] OTHER -> [err |-> TRUE, rules |-> <<>>, builtin |-> NoToggles]

\* The toggles of the file, the default for each built-in it does not name.
MergeToggles(b) ==
    [n \in BuiltinNames |-> IF n \in DOMAIN b THEN b[n] ELSE defaultBuiltinToggles[n]]

\* The three fields of the engine that loading and the mutators set.
EngineState(custom, toggles, rules) == [custom |-> custom, toggles |-> toggles, rules |-> rules]

Outcome(err, eng) ==
    [err |-> err, custom |-> eng.custom, toggles |-> eng.toggles, rules |-> eng.rules]

loadUnlocked_AssignFirst(f, eng) ==
    LET l == loadRulesFromFile(f)
        t == MergeToggles(l.builtin)
    IN IF l.err THEN Outcome(TRUE, eng)
       ELSE IF \E i \in DOMAIN l.rules : ~compileMatcher(l.rules[i])
            THEN Outcome(TRUE, EngineState(l.rules, t, eng.rules))
            ELSE Outcome(FALSE, EngineState(l.rules, t, rebuild(t, l.rules)))

\* loadUnlocked: read, merge the toggles, compile every custom rule, and only
\* then set customRules and builtinToggles and rebuild; any error returns
\* before the engine is touched.
loadUnlocked(f, eng) ==
    LET l == loadRulesFromFile(f)
        t == MergeToggles(l.builtin)
    IN IF l.err THEN Outcome(TRUE, eng)
       ELSE IF \E i \in DOMAIN l.rules : ~compileMatcher(l.rules[i])
            THEN Outcome(TRUE, eng)
            ELSE Outcome(FALSE, EngineState(l.rules, t, rebuild(t, l.rules)))

NoLoc ==
    [op |-> "", agent |-> "", tc |-> ToolCall(0, "", "", 0),
     obs |-> [rules |-> <<>>, len |-> 0], before |-> <<>>, after |-> <<>>,
     decision |-> Decision("", "", ""),
     old |-> EngineState(<<>>, NoToggles, <<>>),
     new |-> Outcome(FALSE, EngineState(<<>>, NoToggles, <<>>))]

NoReload == [done |-> FALSE, failed |-> FALSE]

NoEngineCall ==
    [op |-> "", name |-> "", err |-> FALSE, before |-> EngineState(<<>>, NoToggles, <<>>),
     paired |-> FALSE, pre |-> <<>>,
     agent |-> "", tc |-> ToolCall(0, "", "", 0), decision |-> Decision("", "", "")]

NoEval == [called |-> FALSE, agent |-> "", tc |-> ToolCall(0, "", "", 0),
           rules |-> <<>>, decision |-> Decision("", "", "")]

\* engine.New on the default rules.yaml: no custom rule, default toggles.
EngineInit ==
    /\ eCustom = <<>>
    /\ eToggles = defaultBuiltinToggles
    /\ eRules = rebuild(defaultBuiltinToggles, <<>>)
    /\ eLast = NoEval
    /\ eCall = NoEngineCall
    /\ eFile = NoRulesFile
    /\ emu = [writer |-> NoTask, readers |-> {}]
    /\ epc = [t \in Tasks |-> "idle"]
    /\ eloc = [t \in Tasks |-> NoLoc]
    /\ eStore = <<>>
    /\ eReload = NoReload

\* The rules handed to AddRule (parsed from YAML).
RuleInputs ==
    {Rule("block_all_exec", {"exec"}, "", "", "block", "all exec blocked", FALSE),
     Rule("allow_ls", {"exec"}, "", LsRegex, "allow", "ls is ok", FALSE),
     Rule("allow_main", {}, "main", "", "allow", "main may", FALSE),
     Rule("deny_read", {"read"}, "", "", "", "no reading", FALSE),
     Rule("", {"exec"}, "", "", "block", "unnamed", FALSE),
     Rule("bad_pattern", {"exec"}, "", BadRegex, "block", "bad", FALSE)}

RuleNames == {r.name : r \in RuleInputs} \cup {"block_destructive_commands"}

\* AddRule: a rule without a name or with a pattern that does not compile is
\* refused; an empty action means "block".
AddRule(rule) ==
    /\ Len(eCustom) < MaxRules
    /\ IF rule.name = "" \/ ~compileMatcher(rule)
       THEN UNCHANGED <<eCustom, eRules>>
       ELSE LET r == [rule EXCEPT !.action = IF @ = "" THEN "block" ELSE @] IN
            /\ eCustom' = Append(eCustom, r)
            /\ eRules' = rebuild(eToggles, Append(eCustom, r))
    /\ UNCHANGED <<eToggles, eLast, eCall>>
    /\ UNCHANGED engineTaskVars
    /\ UNCHANGED <<auditVars, rewriteVars, proxyVars, registryVars, serviceVars>>

\* RemoveRule: drops every custom rule of that name; an unknown name is an
\* error and changes nothing.
RemoveRule(name) ==
    /\ LET filtered == SelectSeq(eCustom, LAMBDA r : r.name # name) IN
       IF filtered = eCustom
       THEN UNCHANGED <<eCustom, eRules>>
       ELSE /\ eCustom' = filtered
            /\ eRules' = rebuild(eToggles, filtered)
    /\ UNCHANGED <<eToggles, eLast, eCall>>
    /\ UNCHANGED engineTaskVars
    /\ UNCHANGED <<auditVars, rewriteVars, proxyVars, registryVars, serviceVars>>

EvalCalls == {ToolCall(1, n, c, 0) : n \in ToolNames, c \in Commands}

\* A caller evaluates a tool call (RLock; scan; RUnlock).
EvaluateCall(agentID, tc) ==
    /\ eLast' = [called |-> TRUE, agent |-> agentID, tc |-> tc, rules |-> eRules,
                 decision |-> Evaluate(eRules, agentID, tc)]
    /\ UNCHANGED <<eCustom, eToggles, eRules, eCall>>
    /\ UNCHANGED engineTaskVars
    /\ UNCHANGED <<auditVars, rewriteVars, proxyVars, registryVars, serviceVars>>

\* ---- the methods of the engine, task by task, under Engine.mu ----

\* The rules.yaml files an editor or `ctrlai rules` leaves behind.
RulesFiles ==
    {NoRulesFile,
     RulesFile("unreadable", <<>>, NoToggles),
     RulesFile("unparsable", <<>>, NoToggles),
     RulesFile("ok", <<Rule("allow_ls", {"exec"}, "", LsRegex, "allow", "ls is ok", FALSE)>>,
               [n \in {"block_unsolicited_messages"} |-> TRUE]),
     RulesFile("ok", <<Rule("block_all_exec", {"exec"}, "", "", "block", "all exec blocked", FALSE),
                       Rule("allow_main", {}, "main", "", "allow", "main may", FALSE)>>,
               [n \in {"block_destructive_commands"} |-> FALSE]),
     RulesFile("ok", <<Rule("allow_ls", {"exec"}, "", LsRegex, "allow", "ls is ok", FALSE),
                       Rule("bad_pattern", {"exec"}, "", BadRegex, "block", "bad", FALSE)>>,
               [n \in BuiltinNames |-> FALSE]),
     RulesFile("ok", <<Rule("", {"exec"}, "", LsRegex, "block", "unnamed", FALSE)>>, NoToggles)}

\* rules.yaml is written (or removed) by another program.
WriteRulesFile(f) ==
    /\ f # eFile
    /\ eFile' = f
    /\ UNCHANGED <<eCustom, eToggles, eRules, eLast, eCall, emu, epc, eloc, eStore, eReload>>
    /\ UNCHANGED <<auditVars, rewriteVars, proxyVars, registryVars, serviceVars>>

\* e.mu.Lock() succeeds
LockFree(t) == emu.writer = NoTask /\ emu.readers = {}

RLockFree_NoLock(t) == TRUE

\* e.mu.RLock() succeeds
RLockFree(t) == emu.writer = NoTask

ThisEngine == EngineState(eCustom, eToggles, eRules)

\* A mutator has taken the lock and worked out what it will set.
Locked(t, op, outcome) ==
    /\ epc[t] = "idle"
    /\ LockFree(t)
    /\ emu' = [emu EXCEPT !.writer = t]
    /\ epc' = [epc EXCEPT ![t] = "locked"]
    /\ eloc' = [eloc EXCEPT ![t] = [NoLoc EXCEPT !.op = op, !.old = ThisEngine,
                                                  !.new = outcome]]
    /\ UNCHANGED <<eCustom, eToggles, eRules, eLast, eCall, eFile, eStore, eReload>>
    /\ UNCHANGED <<auditVars, rewriteVars, proxyVars, registryVars, serviceVars>>

\* AddRule up to rebuild: the rule is checked and compiled before Lock; a
\* refused rule returns without taking the lock.
EngAddRule(t, rule) ==
    /\ Len(eCustom) < MaxRules
    /\ rule.name # ""
    /\ compileMatcher(rule)
    /\ LET r == [rule EXCEPT !.action = IF @ = "" THEN "block" ELSE @]
           c == Append(eCustom, r)
       IN Locked(t, "add", Outcome(FALSE, EngineState(c, eToggles, rebuild(eToggles, c))))

\* RemoveRule up to rebuild; an unknown name returns an error under the lock.
EngRemoveRule(t, name) ==
    /\ eCustom # <<>>
    /\ LET filtered == SelectSeq(eCustom, LAMBDA r : r.name # name) IN
       Locked(t, "remove",
              IF filtered = eCustom THEN Outcome(TRUE, ThisEngine)
              ELSE Outcome(FALSE, EngineState(filtered, eToggles, rebuild(eToggles, filtered))))

\* Reload up to the assignments of loadUnlocked.
EngReload(t) ==
    /\ epc[t] = "idle"
    /\ Locked(t, "reload", loadUnlocked(eFile, ThisEngine))

\* e.customRules = ..., e.builtinToggles = ..., and rebuild's store of the
\* new slice into e.rules begins (nothing is stored after an error).
EngAssign(t) ==
    /\ epc[t] = "locked"
    /\ eCustom' = eloc[t].new.custom
    /\ eToggles' = eloc[t].new.toggles
    /\ eStore' = IF eloc[t].new.err THEN <<>> ELSE <<eloc[t].new.rules>>
    /\ epc' = [epc EXCEPT ![t] = "stored"]
    /\ UNCHANGED <<eRules, eLast, eCall, eFile, emu, eloc, eReload>>
    /\ UNCHANGED <<auditVars, rewriteVars, proxyVars, registryVars, serviceVars>>

\* The store into e.rules ends and the deferred Unlock runs; the caller of
\* Reload logs its error.
EngUnlock(t) ==
    /\ epc[t] = "stored"
    /\ eRules' = IF eStore # <<>> THEN eStore[1] ELSE eRules
    /\ eStore' = <<>>
    /\ emu' = [emu EXCEPT !.writer = NoTask]
    /\ epc' = [epc EXCEPT ![t] = "idle"]
    /\ eloc' = [eloc EXCEPT ![t] = NoLoc]
    /\ eReload' = IF eloc[t].op = "reload"
                  THEN [done |-> TRUE, failed |-> eloc[t].new.err] ELSE eReload
    /\ UNCHANGED <<eCustom, eToggles, eLast, eCall, eFile>>
    /\ UNCHANGED <<auditVars, rewriteVars, proxyVars, registryVars, serviceVars>>

\* What a read of the slice e.rules gives: the slice, or, while a store is
\* under way, the new array with the old length.
ReadRules ==
    IF eStore = <<>> THEN [rules |-> eRules, len |-> Len(eRules)]
    ELSE [rules |-> eStore[1], len |-> Len(eRules)]

\* The elements the loop of Evaluate visits.
Scanned(obs) ==
    SubSeq(obs.rules, 1, IF obs.len < Len(obs.rules) THEN obs.len ELSE Len(obs.rules))

\* Evaluate: RLock, the range statement reads e.rules, the loop runs over
\* what it read.
EngEvaluate(t, agentID, tc) ==
    /\ epc[t] = "idle"
    /\ RLockFree(t)
    /\ emu' = [emu EXCEPT !.readers = @ \cup {t}]
    /\ epc' = [epc EXCEPT ![t] = "eval"]
    /\ eloc' = [eloc EXCEPT ![t] =
                  [NoLoc EXCEPT !.op = "eval", !.agent = agentID, !.tc = tc,
                                !.obs = ReadRules, !.before = eRules,
                                !.after = IF eStore = <<>> THEN eRules ELSE eStore[1],
                                !.decision = Evaluate(Scanned(ReadRules), agentID, tc)]]
    /\ UNCHANGED <<eCustom, eToggles, eRules, eLast, eCall, eFile, eStore, eReload>>
    /\ UNCHANGED <<auditVars, rewriteVars, proxyVars, registryVars, serviceVars>>

\* Evaluate: the deferred RUnlock; the decision goes to the caller.
EngEvaluated(t) ==
    /\ epc[t] = "eval"
    /\ emu' = [emu EXCEPT !.readers = @ \ {t}]
    /\ epc' = [epc EXCEPT ![t] = "idle"]
    /\ eloc' = [eloc EXCEPT ![t] = NoLoc]
    /\ UNCHANGED <<eCustom, eToggles, eRules, eLast, eCall, eFile, eStore, eReload>>
    /\ UNCHANGED <<auditVars, rewriteVars, proxyVars, registryVars, serviceVars>>

\* The rules and names handed to the mutators while handlers evaluate.
TaskRuleInputs ==
    {Rule("block_all_exec", {"exec"}, "", "", "block", "all exec blocked", FALSE),
     Rule("allow_ls", {"exec"}, "", LsRegex, "allow", "ls is ok", FALSE)}

TaskRuleNames == {"block_all_exec", "allow_ls", "block_destructive_commands"}

\* The calls the handlers make while the rules change.
EngineCalls == {ToolCall(1, "exec", "rm -rf /", 0), ToolCall(1, "exec", "ls", 0)}

\* ---- the calls on one Engine, one after the other ----

addRule_NoCompile(eng, rule) ==
    IF rule.name = "" THEN Outcome(TRUE, eng)
    ELSE LET r == [rule EXCEPT !.action = IF @ = "" THEN "block" ELSE @]
             c == Append(eng.custom, r)
         IN Outcome(FALSE, EngineState(c, eng.toggles, rebuild(eng.toggles, c)))

\* Engine.AddRule on the engine eng: the error and the engine after.
addRule(eng, rule) ==
    IF rule.name = "" \/ ~compileMatcher(rule) THEN Outcome(TRUE, eng)
    ELSE LET r == [rule EXCEPT !.action = IF @ = "" THEN "block" ELSE @]
             c == Append(eng.custom, r)
         IN Outcome(FALSE, EngineState(c, eng.toggles, rebuild(eng.toggles, c)))

removeRule_Unchecked(eng, name) ==
    LET filtered == SelectSeq(eng.rules, LAMBDA r : r.name # name)
    IN Outcome(FALSE, EngineState(SelectSeq(eng.custom, LAMBDA r : r.name # name),
                                  eng.toggles, filtered))

\* Engine.RemoveRule on the engine eng.
removeRule(eng, name) ==
    LET filtered == SelectSeq(eng.custom, LAMBDA r : r.name # name)
    IN IF filtered = eng.custom THEN Outcome(TRUE, eng)
       ELSE Outcome(FALSE, EngineState(filtered, eng.toggles, rebuild(eng.toggles, filtered)))

\* The engine after a call.
Engined(out) ==
    /\ eCustom' = out.custom
    /\ eToggles' = out.toggles
    /\ eRules' = out.rules
    /\ UNCHANGED <<eLast, emu, epc, eloc, eStore, eReload>>
    /\ UNCHANGED <<auditVars, rewriteVars, proxyVars, registryVars, serviceVars>>

\* The rules handed to AddRule from the dashboard and `ctrlai rules add`: the
\* name may be that of a rule the engine has, custom or built-in.
CallRuleInputs ==
    {Rule("block_all_exec", {"exec"}, "", "", "block", "all exec blocked", FALSE),
     Rule("allow_ls", {"exec"}, "", LsRegex, "allow", "ls is ok", FALSE),
     Rule("block_destructive_commands", {"exec"}, "", LsRegex, "", "no ls", FALSE),
     Rule("", {"exec"}, "", "", "block", "unnamed", FALSE),
     Rule("bad_pattern", {"exec"}, "", BadRegex, "block", "bad", FALSE)}

CallRuleNames == {"block_all_exec", "allow_ls", "block_destructive_commands", "no_such_rule"}

CallAddRule(rule) ==
    /\ Len(eCustom) < MaxRules
    /\ Engined(addRule(ThisEngine, rule))
    /\ eCall' = [NoEngineCall EXCEPT !.op = "add", !.name = rule.name,
                                     !.err = addRule(ThisEngine, rule).err,
                                     !.before = ThisEngine]
    /\ UNCHANGED eFile

CallRemoveRule(name) ==
    /\ Engined(removeRule(ThisEngine, name))
    /\ eCall' = [NoEngineCall EXCEPT !.op = "remove", !.name = name,
                                     !.err = removeRule(ThisEngine, name).err,
                                     !.before = ThisEngine,
                                     !.paired = eCall.op = "add" /\ ~eCall.err
                                                /\ eCall.name = name,
                                     !.pre = eCall.before.rules]
    /\ UNCHANGED eFile

\* Engine.Reload
CallReloadRules ==
    /\ Engined(loadUnlocked(eFile, ThisEngine))
    /\ eCall' = [NoEngineCall EXCEPT !.op = "reload",
                                     !.err = loadUnlocked(eFile, ThisEngine).err,
                                     !.before = ThisEngine]
    /\ UNCHANGED eFile

CallEvaluate(agentID, tc) ==
    /\ eCall' = [NoEngineCall EXCEPT !.op = "eval", !.before = ThisEngine,
                                     !.agent = agentID, !.tc = tc,
                                     !.decision = Evaluate(eRules, agentID, tc)]
    /\ UNCHANGED <<eCustom, eToggles, eRules, eLast, engineTaskVars>>
    /\ UNCHANGED <<auditVars, rewriteVars, proxyVars, registryVars, serviceVars>>

CallWriteRulesFile(f) ==
    /\ f # eFile
    /\ eFile' = f
    /\ UNCHANGED <<eCustom, eToggles, eRules, eLast, eCall, emu, epc, eloc, eStore, eReload>>
    /\ UNCHANGED <<auditVars, rewriteVars, proxyVars, registryVars, serviceVars>>

EngineCallNext ==
    \/ \E f \in RulesFiles : CallWriteRulesFile(f)
    \/ \E r \in CallRuleInputs : CallAddRule(r)
    \/ \E n \in CallRuleNames : CallRemoveRule(n)
    \/ CallReloadRules
    \/ \E tc \in EngineCalls : CallEvaluate("main", tc)

(***************************************************************************)
(* Wire formats: what the upstream sends                                   *)
(***************************************************************************)
MaxItems == 2

APITypeAnthropic == "anthropic"
APITypeOpenAI == "openai"
APITypeOpenAIResponses == "openai_responses"
APITypeUnknown == "unknown"

\* What the LLM answers: text and tool invocations, in order. The id of an
\* invocation is its position in the answer, so ids are unique.
TextItem == [type |-> "text", id |-> 0, name |-> "", cmd |-> ""]

ToolItem(name, cmd) == [type |-> "tool", id |-> 0, name |-> name, cmd |-> cmd]

ItemKinds == {TextItem, ToolItem("exec", "ls"), ToolItem("exec", "rm -rf /")}

WithIds(q) == [i \in DOMAIN q |-> IF q[i].type = "tool" THEN [q[i] EXCEPT !.id = i] ELSE q[i]]

Answers == {WithIds(q) : q \in UNION {[1..k -> ItemKinds] : k \in 0..MaxItems}}

HasTool(items) == \E i \in DOMAIN items : items[i].type = "tool"

\* The number of invocations before position i: the index of an OpenAI tool
\* call is its position in the tool_calls array.
ToolRank(items, i) == Cardinality({j \in 1..(i - 1) : items[j].type = "tool"})

Block(type, id, name, cmd) == [type |-> type, id |-> id, name |-> name, cmd |-> cmd]

Body(shape, content, stop) == [shape |-> shape, content |-> content, stop |-> stop]

NoBody == Body("", <<>>, "")

\* The response body of each API for an answer.
\*   Anthropic: content[] of text and tool_use blocks, stop_reason
\*   OpenAI chat: message.content and message.tool_calls[], finish_reason
\*   OpenAI responses: output[] of message and function_call items, status
UpstreamBody(shape, items) ==
    LET enc(text, tool) ==
            [i \in DOMAIN items |->
                IF items[i].type = "tool"
                THEN Block(tool, items[i].id, items[i].name, items[i].cmd)
                ELSE Block(text, 0, "", "")]
    IN CASE shape = APITypeAnthropic ->
                Body(shape, enc("text", "tool_use"),
                     IF HasTool(items) THEN "tool_use" ELSE "end_turn")
         [] shape = APITypeOpenAI ->
                Body(shape, enc("content", "function"),
                     IF HasTool(items) THEN "tool_calls" ELSE "stop")
         [] shape = APITypeOpenAIResponses ->
                Body(shape, enc("message", "function_call"), "completed")
         [] OTHER -> Body(shape, enc("text", "tool"), "")

Evt(ev, idx, type, id, name, cmd, stop) ==
    [ev |-> ev, index |-> idx, type |-> type, id |-> id, name |-> name,
     cmd |-> cmd, stop |-> stop]

\* The SSE events of one item of the answer, per API.
AnthropicItemEvents(items, i) ==
    LET it == items[i] IN
    <<Evt("content_block_start", i - 1, IF it.type = "tool" THEN "tool_use" ELSE "text",
          it.id, it.name, "", ""),
      Evt("content_block_delta", i - 1, "", 0, "", it.cmd, ""),
      Evt("content_block_stop", i - 1, "", 0, "", "", "")>>

OpenAIItemEvents(items, i) ==
    LET it == items[i] IN
    IF it.type = "tool"
    THEN <<Evt("chunk", ToolRank(items, i), "tool_calls", it.id, it.name, "", ""),
           Evt("chunk", ToolRank(items, i), "tool_calls", 0, "", it.cmd, "")>>
    ELSE <<Evt("chunk", 0, "content", 0, "", "", "")>>

ResponsesItemEvents(items, i) ==
    LET it == items[i] IN
    IF it.type = "tool"
    THEN <<Evt("response.output_item.added", 0, "function_call", it.id, it.name, "", ""),
           Evt("response.function_call_arguments.delta", 0, "", it.id, "", it.cmd, ""),
           Evt("response.function_call_arguments.done", 0, "", it.id, "", it.cmd, ""),
           Evt("response.output_item.done", 0, "function_call", it.id, it.name, "", "")>>
    ELSE <<Evt("response.output_item.added", 0, "message", 0, "", "", ""),
           Evt("response.output_item.done", 0, "message", 0, "", "", "")>>

OtherItemEvents(items, i) == <<Evt("data", 0, items[i].type, items[i].id, items[i].name, "", "")>>

RECURSIVE ItemEvents(_, _, _)
ItemEvents(shape, items, i) ==
    IF i > Len(items) THEN <<>>
    ELSE (CASE shape = APITypeAnthropic -> AnthropicItemEvents(items, i)
            [] shape = APITypeOpenAI -> OpenAIItemEvents(items, i)
            [] shape = APITypeOpenAIResponses -> ResponsesItemEvents(items, i)
            [] OTHER -> OtherItemEvents(items, i))
         \o ItemEvents(shape, items, i + 1)

\* The event stream of each API for an answer, up to its terminal marker.
UpstreamEvents(shape, items) ==
    CASE shape = APITypeAnthropic ->
            <<Evt("message_start", 0, "", 0, "", "", "")>>
            \o ItemEvents(shape, items, 1)
            \o <<Evt("message_delta", 0, "", 0, "", "",
                     IF HasTool(items) THEN "tool_use" ELSE "end_turn"),
                 Evt("message_stop", 0, "", 0, "", "", "")>>
      [] shape = APITypeOpenAI ->
            ItemEvents(shape, items, 1)
            \o <<Evt("chunk", 0, "finish", 0, "", "",
                     IF HasTool(items) THEN "tool_calls" ELSE "stop"),
                 Evt("[DONE]", 0, "", 0, "", "", "")>>
      [] shape = APITypeOpenAIResponses ->
            ItemEvents(shape, items, 1)
            \o <<Evt("response.completed", 0, "", 0, "", "", "completed")>>
      [] OTHER -> ItemEvents(shape, items, 1)

\* The invocations of an answer with the index its API gives each: the
\* position in content[] (Anthropic), the position among the calls (OpenAI).
Invocations(shape, items) ==
    LET pos == SelectSeq([i \in DOMAIN items |-> i], LAMBDA i : items[i].type = "tool")
    IN [k \in DOMAIN pos |->
           ToolCall(items[pos[k]].id, items[pos[k]].name, items[pos[k]].cmd,
                    IF shape = APITypeAnthropic THEN pos[k] - 1 ELSE k - 1)]

(***************************************************************************)
(* Extraction of tool calls                                                *)
(***************************************************************************)

\* extractAnthropic: the tool_use blocks of content[], Index = position.
\* A body without content[] yields nothing.
extractAnthropic(body) ==
    IF body.shape # APITypeAnthropic THEN <<>>
    ELSE LET c == body.content
             pos == SelectSeq([i \in DOMAIN c |-> i], LAMBDA i : c[i].type = "tool_use")
         IN [k \in DOMAIN pos |->
                ToolCall(c[pos[k]].id, c[pos[k]].name, c[pos[k]].cmd, pos[k] - 1)]

\* extractOpenAI: choices[0].message.tool_calls[], Index = position in it.
\* A body without choices[] yields nothing.
extractOpenAI(body) ==
    IF body.shape # APITypeOpenAI THEN <<>>
    ELSE LET calls == SelectSeq(body.content, LAMBDA b : b.type = "function")
         IN [k \in DOMAIN calls |->
                ToolCall(calls[k].id, calls[k].name, calls[k].cmd, k - 1)]

Extract(body, apiType) ==
    CASE apiType = APITypeAnthropic -> extractAnthropic(body)
      [] apiType = APITypeOpenAI -> extractOpenAI(body)
      [] OTHER -> <<>>

\* The argument text accumulated for one block or call from its deltas.
DeltaOf(events, ev, type, idx) ==
    LET d == SelectSeq(events, LAMBDA e : e.ev = ev /\ e.type = type /\ e.index = idx
                                          /\ e.cmd # "")
    IN IF d = <<>> THEN "" ELSE d[1].cmd

\* reconstructAnthropic: one ToolCall per tool_use content_block_start, with
\* the block's index.
reconstructAnthropic(events) ==
    LET starts == SelectSeq(events, LAMBDA e : e.ev = "content_block_start"
                                               /\ e.type = "tool_use")
    IN [k \in DOMAIN starts |->
           ToolCall(starts[k].id, starts[k].name,
                    DeltaOf(events, "content_block_delta", "", starts[k].index),
                    starts[k].index)]

\* reconstructOpenAI: tool-call fragments folded by index; events without
\* choices[] are skipped.
reconstructOpenAI(events) ==
    LET frags == SelectSeq(events, LAMBDA e : e.ev = "chunk" /\ e.type = "tool_calls")
        first == SelectSeq(frags, LAMBDA e : e.id # 0)
        seen == {frags[i].index : i \in DOMAIN frags}
        idxs == SelectSeq([k \in 1..Cardinality(seen) |-> k - 1], LAMBDA i : i \in seen)
        head(i) == SelectSeq(first, LAMBDA e : e.index = i)
    IN [k \in DOMAIN idxs |->
           ToolCall(IF head(idxs[k]) = <<>> THEN 0 ELSE head(idxs[k])[1].id,
                    IF head(idxs[k]) = <<>> THEN "" ELSE head(idxs[k])[1].name,
                    DeltaOf(events, "chunk", "tool_calls", idxs[k]),
                    idxs[k])]

\* reconstruct: the tool calls of the buffered message.
reconstruct(events, apiType) ==
    CASE apiType = APITypeAnthropic -> reconstructAnthropic(events)
      [] apiType = APITypeOpenAI -> reconstructOpenAI(events)
      [] OTHER -> <<>>

(***************************************************************************)
(* Rewriting a response                                                    *)
(***************************************************************************)
IDsOf(calls) == {calls[i].id : i \in DOMAIN calls}

IndexesOf(calls) == {calls[i].index : i \in DOMAIN calls}

\* formatBlockNotice
formatBlockNotice(toolName, ruleName, message) == <<"[CtrlAI] Blocked", toolName, ruleName, message>>

NoticeBlock(type) == Block(type, 0, "[CtrlAI]", "")

Notices(type, n) == [i \in 1..n |-> NoticeBlock(type)]

\* modifyAnthropicResponse: blocked tool_use blocks are dropped by id, one
\* text block per decision is appended, stop_reason becomes end_turn when no
\* tool_use block is left.
modifyAnthropicResponse(body, blocked, decisions) ==
    IF body.shape # APITypeAnthropic THEN body
    ELSE LET filtered == SelectSeq(body.content,
                             LAMBDA b : ~(b.type = "tool_use" /\ b.id \in IDsOf(blocked)))
             hasAllowedToolUse == \E i \in DOMAIN filtered : filtered[i].type = "tool_use"
         IN Body(body.shape, filtered \o Notices("text", Len(decisions)),
                 IF hasAllowedToolUse THEN body.stop ELSE "end_turn")

\* modifyOpenAIResponse: blocked tool_calls are dropped by id, the notices are
\* appended to message.content, finish_reason becomes stop when no call is
\* left.
modifyOpenAIResponse(body, blocked, decisions) ==
    IF body.shape # APITypeOpenAI THEN body
    ELSE LET kept == SelectSeq(body.content,
                         LAMBDA b : ~(b.type = "function" /\ b.id \in IDsOf(blocked)))
             hasAllowedToolCalls == \E i \in DOMAIN kept : kept[i].type = "function"
         IN Body(body.shape, kept \o Notices("content", Len(decisions)),
                 IF hasAllowedToolCalls THEN body.stop ELSE "stop")

\* modifyOpenAIResponsesResponse: blocked function_call items are dropped by
\* call_id, one notice message is appended, status is set to completed.
modifyOpenAIResponsesResponse(body, blocked, decisions) ==
    IF body.shape # APITypeOpenAIResponses THEN body
    ELSE LET filtered == SelectSeq(body.content,
                             LAMBDA b : ~(b.type = "function_call" /\ b.id \in IDsOf(blocked)))
         IN Body(body.shape, filtered \o <<NoticeBlock("message")>>, "completed")

modifyNonStreamingResponse(body, apiType, blocked, decisions) ==
    CASE apiType = APITypeAnthropic -> modifyAnthropicResponse(body, blocked, decisions)
      [] apiType = APITypeOpenAI -> modifyOpenAIResponse(body, blocked, decisions)
      [] apiType = APITypeOpenAIResponses ->
            modifyOpenAIResponsesResponse(body, blocked, decisions)
      [] OTHER -> body

\* ---- event streams ----

NoSkip == 0 - 1

IsStart(e) == e.ev = "content_block_start"

IsBlockedStart(e, blockedIndexes) ==
    IsStart(e) /\ e.type = "tool_use" /\ e.index \in blockedIndexes

\* First pass of buildModifiedAnthropicStream: the content_block_start events
\* that are kept, in order; indexMap sends the index of the k-th of them to
\* k-1.
KeptStarts(events, blockedIndexes) ==
    SelectSeq(events, LAMBDA e : IsStart(e) /\ ~IsBlockedStart(e, blockedIndexes))

InIndexMap(kept, old) == \E k \in DOMAIN kept : kept[k].index = old

IndexMap(kept, old) ==
    (CHOOSE k \in DOMAIN kept :
        /\ kept[k].index = old
        /\ \A k2 \in DOMAIN kept : k2 > k => kept[k2].index # old) - 1

\* reindexEvent
reindexEvent(evt, oldIndex, kept) ==
    IF ~InIndexMap(kept, oldIndex) \/ IndexMap(kept, oldIndex) = oldIndex
    THEN evt
    ELSE [evt EXCEPT !.index = IndexMap(kept, oldIndex)]

\* rewriteStopReason
rewriteStopReason(evt, newReason) == [evt EXCEPT !.stop = newReason]

\* buildTextBlockEvents: start, delta and stop of the notice text block.
buildTextBlockEvents(idx) ==
    <<Evt("content_block_start", idx, "text", 0, "[CtrlAI]", "", ""),
      Evt("content_block_delta", idx, "", 0, "[CtrlAI]", "", ""),
      Evt("content_block_stop", idx, "", 0, "[CtrlAI]", "", "")>>

\* allToolsBlocked: no tool_use block start outside the blocked indexes.
allToolsBlocked(events, blockedIndexes) ==
    \A i \in DOMAIN events :
        (IsStart(events[i]) /\ events[i].type = "tool_use")
            => events[i].index \in blockedIndexes

\* Second pass of buildModifiedAnthropicStream, from event i on; skipBlock is
\* the index of the block being dropped.
RECURSIVE AnthropicReplay(_, _, _, _, _)
AnthropicReplay(events, i, skipBlock, blocked, blockMessages) ==
    IF i > Len(events) THEN <<>>
    ELSE
    LET evt == events[i]
        bi == IndexesOf(blocked)
        kept == KeptStarts(events, bi)
        rest(skip) == AnthropicReplay(events, i + 1, skip, blocked, blockMessages)
    IN CASE evt.ev = "content_block_start" ->
              IF IsBlockedStart(evt, bi)
              THEN rest(evt.index)
              ELSE <<reindexEvent(evt, evt.index, kept)>> \o rest(NoSkip)
         [] evt.ev = "content_block_delta" ->
              IF evt.index = skipBlock
              THEN rest(skipBlock)
              ELSE <<reindexEvent(evt, evt.index, kept)>> \o rest(skipBlock)
         [] evt.ev = "content_block_stop" ->
              IF evt.index = skipBlock
              THEN rest(NoSkip)
              ELSE <<reindexEvent(evt, evt.index, kept)>> \o rest(skipBlock)
         [] evt.ev = "message_delta" ->
              (IF Len(blocked) > 0 /\ allToolsBlocked(events, bi)
               THEN <<rewriteStopReason(evt, "end_turn")>>
               ELSE <<evt>>) \o rest(skipBlock)
         [] evt.ev = "message_stop" ->
              (IF Len(blockMessages) > 0
               THEN buildTextBlockEvents(Len(kept)) \o <<evt>>
               ELSE <<evt>>) \o rest(skipBlock)
         [] OTHER -> <<evt>> \o rest(skipBlock)

buildModifiedAnthropicStream(events, blocked, blockMessages) ==
    AnthropicReplay(events, 1, NoSkip, blocked, blockMessages)

allOpenAIToolsBlocked_SomeBlocked(events, blockedIndexes) == blockedIndexes # {}

\* allOpenAIToolsBlocked: every tool-call index seen in the chunks is blocked
\* (and there is one).
allOpenAIToolsBlocked(events, blockedIndexes) ==
    LET seenIndexes == {events[i].index :
                           i \in {j \in DOMAIN events : events[j].ev = "chunk"
                                                        /\ events[j].type = "tool_calls"}}
    IN seenIndexes # {} /\ seenIndexes \subseteq blockedIndexes

\* buildOpenAIContentDelta
buildOpenAIContentDelta == Evt("chunk", 0, "content", 0, "[CtrlAI]", "", "")

\* buildModifiedOpenAIStream: tool-call fragments of a blocked index are
\* deleted from their chunk, finish_reason tool_calls becomes stop when all
\* calls are blocked, the notice chunk goes before [DONE].
buildModifiedOpenAIStream(events, blocked, blockMessages) ==
    LET bi == IndexesOf(blocked)
        rebuilt(evt) ==
            IF evt.ev # "chunk" THEN evt
            ELSE IF evt.type = "tool_calls" /\ evt.index \in bi
            THEN Evt("chunk", 0, "empty", 0, "", "", "")
            ELSE IF evt.type = "finish" /\ evt.stop = "tool_calls"
                    /\ allOpenAIToolsBlocked(events, bi)
            THEN [evt EXCEPT !.stop = "stop"]
            ELSE evt
        modified == [i \in DOMAIN events |-> rebuilt(events[i])]
        n == Len(modified)
    IN IF Len(blockMessages) = 0 THEN modified
       ELSE IF n > 0 /\ modified[n].ev = "[DONE]"
       THEN SubSeq(modified, 1, n - 1) \o <<buildOpenAIContentDelta, modified[n]>>
       ELSE modified \o <<buildOpenAIContentDelta>>

\* buildModifiedStream: Anthropic and OpenAI chat streams are rebuilt; for
\* every other API type the events are returned as they are.
buildModifiedStream(events, apiType, blocked, blockMessages) ==
    CASE apiType = APITypeAnthropic ->
            buildModifiedAnthropicStream(events, blocked, blockMessages)
      [] apiType = APITypeOpenAI ->
            buildModifiedOpenAIStream(events, blocked, blockMessages)
      [] OTHER -> events

\* buildKilledResponse: the synthetic terminal answer for a killed agent.
KilledText == "This agent has been terminated by the administrator."

buildKilledResponse(apiType) ==
    CASE apiType = APITypeAnthropic ->
            Body(apiType, <<Block("text", 0, KilledText, "")>>, "end_turn")
      [] apiType = APITypeOpenAI ->
            Body(apiType, <<Block("content", 0, KilledText, "")>>, "stop")
      [] apiType = APITypeOpenAIResponses ->
            Body(apiType, <<Block("message", 0, KilledText, "")>>, "completed")
      [] OTHER -> Body(APITypeUnknown, <<Block("error", 0, KilledText, "")>>, "")

\* The invocation ids a client finds in a body or in an event stream.
ToolIDsInBody(body) ==
    {body.content[i].id :
        i \in {j \in DOMAIN body.content :
                  body.content[j].type \in {"tool_use", "function", "function_call", "tool"}}}

ToolIDsInEvents(events) ==
    {events[i].id : i \in {j \in DOMAIN events : events[j].id # 0}}

\* ---- a rewrite on its own ----

NoRewrite == [apiType |-> "", stream |-> FALSE, items |-> <<>>, blocked |-> <<>>]

NoOutput == [done |-> FALSE, body |-> NoBody, events |-> <<>>]

SubSeqAt(q, S) == SelectSeq(q, LAMBDA c : c.id \in S)

\* The arguments of a rewrite: an answer in one of the three formats, as a
\* body or as a stream, and a non-empty choice of its invocations as blocked.
RewriteInputs ==
    UNION {
        {[apiType |-> a, stream |-> st, items |-> q,
          blocked |-> SubSeqAt(Invocations(a, q), S)] :
            S \in (SUBSET IDsOf(Invocations(a, q))) \ {{}}} :
        a \in {APITypeAnthropic, APITypeOpenAI, APITypeOpenAIResponses},
        st \in BOOLEAN, q \in Answers}

BlockDecisions(blocked) ==
    [i \in DOMAIN blocked |-> Decision("block", "rule", "message")]

BlockMessages(blocked) ==
    [i \in DOMAIN blocked |-> formatBlockNotice(blocked[i].name, "rule", "message")]

RewriteIdle ==
    /\ rwIn = NoRewrite
    /\ rwOut = NoOutput

RewriteInit ==
    /\ rwIn \in RewriteInputs
    /\ rwOut = NoOutput

\* handleNonStreaming's rewrite of a body with blocked calls.
RewriteBody ==
    /\ ~rwOut.done
    /\ rwIn # NoRewrite
    /\ ~rwIn.stream
    /\ rwOut' = [done |-> TRUE,
                 body |-> modifyNonStreamingResponse(
                              UpstreamBody(rwIn.apiType, rwIn.items), rwIn.apiType,
                              rwIn.blocked, BlockDecisions(rwIn.blocked)),
                 events |-> <<>>]
    /\ UNCHANGED <<rwIn, bufferVars>>
    /\ UNCHANGED <<auditVars, engineVars, proxyVars, registryVars, serviceVars>>

\* handleStreaming's rewrite of the buffered events with blocked calls.
RewriteStream ==
    /\ ~rwOut.done
    /\ rwIn # NoRewrite
    /\ rwIn.stream
    /\ rwOut' = [done |-> TRUE,
                 body |-> NoBody,
                 events |-> buildModifiedStream(
                                UpstreamEvents(rwIn.apiType, rwIn.items), rwIn.apiType,
                                rwIn.blocked, BlockMessages(rwIn.blocked))]
    /\ UNCHANGED <<rwIn, bufferVars>>
    /\ UNCHANGED <<auditVars, engineVars, proxyVars, registryVars, serviceVars>>

(***************************************************************************)
(* Kill switch                                                             *)
(***************************************************************************)

IsKilled_Never(agentID) == FALSE

\* KillSwitch.IsKilled
IsKilled(agentID) == agentID \in killed

\* killed.yaml as a reader finds it: whether yaml.Unmarshal accepts it and the
\* agents of its entries in file order. An absent file and an empty file are
\* read alike (no entry, no error).
KilledFile(ok, entries) == [ok |-> ok, entries |-> entries]

NoKilledFile == KilledFile(TRUE, <<>>)

\* A KillSwitch: the keys of its killed map and the agents of its entries.
KillSwitch(k, entries) == [killed |-> k, entries |-> entries]

NoKillSwitch == KillSwitch({}, <<>>)

ThisKillSwitch == KillSwitch(killed, kEntries)

AgentsOf(entries) == {entries[i] : i \in DOMAIN entries}

\* KillSwitch.loadFromFile on the switch ks: the error and the switch after.
loadFromFile(ks, f) ==
    IF ~f.ok THEN [err |-> TRUE, ks |-> ks]
    ELSE IF f.entries = <<>> THEN [err |-> FALSE, ks |-> ks]
    ELSE [err |-> FALSE,
          ks |-> KillSwitch(ks.killed \cup AgentsOf(f.entries), f.entries)]

\* KillSwitch.saveToFile: the bytes os.WriteFile is given.
saveToFile(ks) == KilledFile(TRUE, ks.entries)

\* NewKillSwitch
NewKillSwitch(f) == loadFromFile(NoKillSwitch, f)

killEntry_Always(ks, id) == KillSwitch(ks.killed \cup {id}, Append(ks.entries, id))

\* KillSwitch.Kill between Lock and saveToFile.
killEntry(ks, id) ==
    IF id \in ks.killed THEN ks
    ELSE KillSwitch(ks.killed \cup {id}, Append(ks.entries, id))

reviveEntry_Keep(ks, id) == ks

\* KillSwitch.Revive between Lock and saveToFile.
reviveEntry(ks, id) ==
    IF id \notin ks.killed THEN ks
    ELSE KillSwitch(ks.killed \ {id}, SelectSeq(ks.entries, LAMBDA e : e # id))

Reload_NoReset(ks, f) == loadFromFile(ks, f)

\* KillSwitch.Reload: the map and the slice are reset, then the file is loaded.
Reload(ks, f) == loadFromFile(NoKillSwitch, f)

\* KillSwitch.Kill: a killed agent is left alone; otherwise the agent enters
\* the set and the list is written to killed.yaml (the write may fail).
Kill(id, saved) ==
    /\ killed' = killEntry(ThisKillSwitch, id).killed
    /\ kEntries' = killEntry(ThisKillSwitch, id).entries
    /\ ksFile' = IF id \notin killed /\ saved
                 THEN saveToFile(killEntry(ThisKillSwitch, id)) ELSE ksFile
    /\ UNCHANGED <<hpc, hreq, nreq, served, killFileVars>>
    /\ UNCHANGED <<auditVars, engineVars, rewriteVars, registryVars, serviceVars>>

\* KillSwitch.Revive
Revive(id, saved) ==
    /\ killed' = reviveEntry(ThisKillSwitch, id).killed
    /\ kEntries' = reviveEntry(ThisKillSwitch, id).entries
    /\ ksFile' = IF id \in killed /\ saved
                 THEN saveToFile(reviveEntry(ThisKillSwitch, id)) ELSE ksFile
    /\ UNCHANGED <<hpc, hreq, nreq, served, killFileVars>>
    /\ UNCHANGED <<auditVars, engineVars, rewriteVars, registryVars, serviceVars>>

\* ---- the calls on one KillSwitch, one after the other ----

NoCall == [op |-> "", agent |-> "", err |-> FALSE, before |-> NoKillSwitch,
           file |-> NoKilledFile, saved |-> NoKilledFile]

\* The proxy's KillSwitch after a call.
Switched(ks) ==
    /\ killed' = ks.killed
    /\ kEntries' = ks.entries

Called(op, id, err) ==
    /\ kLast' = [op |-> op, agent |-> id, err |-> err, before |-> ThisKillSwitch,
                 file |-> ksFile, saved |-> ksFile']
    /\ UNCHANGED <<kEvents, cli, dash, regStatus, kRuns, kRead, kAdded>>
    /\ UNCHANGED <<hpc, hreq, nreq, served>>
    /\ UNCHANGED <<auditVars, engineVars, rewriteVars, registryVars, serviceVars>>

\* The contents killed.yaml is given from outside the KillSwitch.
KilledFiles ==
    {KilledFile(FALSE, <<>>), KilledFile(TRUE, <<>>), KilledFile(TRUE, <<"main">>),
     KilledFile(TRUE, <<"default", "main">>), KilledFile(TRUE, <<"main", "main">>)}

WriteKilledFile(f) ==
    /\ ksFile' = f
    /\ UNCHANGED <<killed, kEntries, killFileVars>>
    /\ UNCHANGED <<hpc, hreq, nreq, served>>
    /\ UNCHANGED <<auditVars, engineVars, rewriteVars, registryVars, serviceVars>>

CallKill(id, saved) ==
    /\ Switched(killEntry(ThisKillSwitch, id))
    /\ ksFile' = IF id \notin killed /\ saved
                 THEN saveToFile(killEntry(ThisKillSwitch, id)) ELSE ksFile
    /\ Called("kill", id, id \notin killed /\ ~saved)

CallRevive(id, saved) ==
    /\ Switched(reviveEntry(ThisKillSwitch, id))
    /\ ksFile' = IF id \in killed /\ saved
                 THEN saveToFile(reviveEntry(ThisKillSwitch, id)) ELSE ksFile
    /\ Called("revive", id, id \in killed /\ ~saved)

CallReload ==
    /\ Switched(Reload(ThisKillSwitch, ksFile).ks)
    /\ UNCHANGED ksFile
    /\ Called("reload", "", Reload(ThisKillSwitch, ksFile).err)

KillSwitchNext ==
    \/ \E f \in KilledFiles : WriteKilledFile(f)
    \/ \E a \in Agents, saved \in BOOLEAN : CallKill(a, saved)
    \/ \E a \in Agents, saved \in BOOLEAN : CallRevive(a, saved)
    \/ CallReload

(***************************************************************************)
(* killed.yaml between the proxy, its watcher and the ctrlai commands      *)
(***************************************************************************)

\* The fsnotify events the watcher may have pending.
MaxEvents == 2

\* The runs of `ctrlai kill` and `ctrlai revive` beside the proxy.
MaxCliRuns == 2

NoCli == [pc |-> "idle", op |-> "", agent |-> "", ks |-> NoKillSwitch,
          before |-> NoKilledFile, alone |-> TRUE]

NoDash == [pc |-> "idle", agent |-> "", status |-> ""]

NoRead == [set |-> FALSE, content |-> NoKilledFile,
           before |-> NoKilledFile, after |-> NoKilledFile]

\* os.WriteFile by the proxy, inside Kill and Revive: the file has the new
\* bytes when the call returns; a write the CLI has in progress is no longer
\* alone on the file. A failed write leaves the file as it was.
ProxyWrote(changed, saved, ks) ==
    IF changed /\ saved
    THEN /\ ksFile' = saveToFile(ks)
         /\ kEvents' = kEvents + 1
         /\ cli' = [cli EXCEPT !.alone = FALSE]
    ELSE UNCHANGED <<ksFile, kEvents, cli>>

\* Registry.SetStatus: nothing happens for an agent without a record.
SetStatus(reg, id, status) ==
    IF reg[id] = "" THEN reg ELSE [reg EXCEPT ![id] = status]

\* Registry.Touch: an unknown agent is registered as active.
Touch(reg, id) ==
    IF reg[id] = "" THEN [reg EXCEPT ![id] = "active"] ELSE reg

\* handleAPIKill up to the return of KillSwitch.Kill: on an error the handler
\* answers 500 and returns, otherwise it goes on to SetStatus.
HandleAPIKill(id, saved) ==
    /\ dash.pc = "idle"
    /\ kEvents < MaxEvents
    /\ Switched(killEntry(ThisKillSwitch, id))
    /\ ProxyWrote(id \notin killed, saved, killEntry(ThisKillSwitch, id))
    /\ dash' = IF id \notin killed /\ ~saved THEN NoDash
               ELSE [pc |-> "status", agent |-> id, status |-> "killed"]
    /\ UNCHANGED <<regStatus, kRuns, kLast, kRead, kAdded>>
    /\ UNCHANGED <<hpc, hreq, nreq, served>>
    /\ UNCHANGED <<auditVars, engineVars, rewriteVars, registryVars, serviceVars>>

\* handleAPIRevive up to the return of KillSwitch.Revive.
HandleAPIRevive(id, saved) ==
    /\ dash.pc = "idle"
    /\ kEvents < MaxEvents
    /\ Switched(reviveEntry(ThisKillSwitch, id))
    /\ ProxyWrote(id \in killed, saved, reviveEntry(ThisKillSwitch, id))
    /\ dash' = IF id \in killed /\ ~saved THEN NoDash
               ELSE [pc |-> "status", agent |-> id, status |-> "active"]
    /\ kAdded' = IF id \in killed THEN kAdded \ {id} ELSE kAdded
    /\ UNCHANGED <<regStatus, kRuns, kLast, kRead>>
    /\ UNCHANGED <<hpc, hreq, nreq, served>>
    /\ UNCHANGED <<auditVars, engineVars, rewriteVars, registryVars, serviceVars>>

\* The rest of handleAPIKill and handleAPIRevive: Registry.SetStatus.
HandleSetStatus ==
    /\ dash.pc = "status"
    /\ regStatus' = SetStatus(regStatus, dash.agent, dash.status)
    /\ dash' = NoDash
    /\ UNCHANGED <<killed, kEntries, ksFile, kEvents, cli, kRuns, kLast, kRead, kAdded>>
    /\ UNCHANGED <<hpc, hreq, nreq, served>>
    /\ UNCHANGED <<auditVars, engineVars, rewriteVars, registryVars, serviceVars>>

\* ServeHTTP of an agent the kill switch lets through, up to Registry.Touch.
ServeTouch(id) ==
    /\ ~IsKilled(id)
    /\ regStatus' = Touch(regStatus, id)
    /\ UNCHANGED <<killed, kEntries, ksFile, kEvents, cli, dash, kRuns, kLast, kRead, kAdded>>
    /\ UNCHANGED <<hpc, hreq, nreq, served>>
    /\ UNCHANGED <<auditVars, engineVars, rewriteVars, registryVars, serviceVars>>

\* runKill / runRevive in a process of its own: NewKillSwitch reads the file,
\* Kill or Revive changes the process's list, and os.WriteFile opens
\* killed.yaml with O_TRUNC: the file is empty until the bytes are written.
\* A command that finds nothing to change, or cannot load the file, exits.
CliRun(op, id) ==
    /\ cli.pc = "idle"
    /\ kRuns < MaxCliRuns
    /\ kRuns' = kRuns + 1
    /\ LET loaded == NewKillSwitch(ksFile)
           ks == IF op = "kill" THEN killEntry(loaded.ks, id)
                 ELSE reviveEntry(loaded.ks, id)
       IN IF loaded.err \/ ks = loaded.ks
          THEN UNCHANGED <<cli, ksFile, kEvents>>
          ELSE /\ kEvents < MaxEvents
               /\ cli' = [pc |-> "truncated", op |-> op, agent |-> id, ks |-> ks,
                          before |-> ksFile, alone |-> TRUE]
               /\ ksFile' = KilledFile(TRUE, <<>>)
               /\ kEvents' = kEvents + 1
    /\ UNCHANGED <<killed, kEntries, dash, regStatus, kLast, kRead, kAdded>>
    /\ UNCHANGED <<hpc, hreq, nreq, served>>
    /\ UNCHANGED <<auditVars, engineVars, rewriteVars, registryVars, serviceVars>>

\* The write of os.WriteFile in the command, at offset 0 of the file it
\* truncated. When the proxy wrote the file in between, the bytes land on
\* the proxy's: the list of the command, or a file that does not parse.
CliWrite(ok) ==
    /\ cli.pc = "truncated"
    /\ kEvents < MaxEvents
    /\ ok \/ ~cli.alone
    /\ ksFile' = KilledFile(ok, IF ok THEN cli.ks.entries ELSE <<>>)
    /\ kEvents' = kEvents + 1
    /\ kAdded' = IF ~ok THEN {}
                 ELSE IF cli.op = "kill" THEN kAdded \cup {cli.agent}
                 ELSE kAdded \ {cli.agent}
    /\ cli' = NoCli
    /\ UNCHANGED <<killed, kEntries, dash, regStatus, kRuns, kLast, kRead>>
    /\ UNCHANGED <<hpc, hreq, nreq, served>>
    /\ UNCHANGED <<auditVars, engineVars, rewriteVars, registryVars, serviceVars>>

\* The write killed.yaml is in the middle of: the list before it and the
\* list after it (the same list when no write is in progress).
WriteInProgress == cli.pc = "truncated" /\ cli.alone

\* Watcher.processEvents on one event of killed.yaml: OnKillSwitchChange,
\* which is KillSwitch.Reload and nothing else.
WatchKillSwitch ==
    /\ kEvents > 0
    /\ kEvents' = kEvents - 1
    /\ Switched(Reload(ThisKillSwitch, ksFile).ks)
    /\ kRead' = [set |-> TRUE, content |-> ksFile,
                 before |-> IF WriteInProgress THEN cli.before ELSE ksFile,
                 after |-> IF WriteInProgress THEN saveToFile(cli.ks) ELSE ksFile]
    /\ UNCHANGED <<ksFile, cli, dash, regStatus, kRuns, kLast, kAdded>>
    /\ UNCHANGED <<hpc, hreq, nreq, served>>
    /\ UNCHANGED <<auditVars, engineVars, rewriteVars, registryVars, serviceVars>>

KillFileNext ==
    \/ \E a \in Agents, saved \in BOOLEAN : HandleAPIKill(a, saved)
    \/ \E a \in Agents, saved \in BOOLEAN : HandleAPIRevive(a, saved)
    \/ HandleSetStatus
    \/ \E a \in Agents : ServeTouch(a)
    \/ \E op \in {"kill", "revive"}, a \in Agents : CliRun(op, a)
    \/ \E ok \in BOOLEAN : CliWrite(ok)
    \/ WatchKillSwitch

(***************************************************************************)
(* Request handler                                                         *)
(***************************************************************************)
MaxRequests == 2

\* The requests in flight at one time, one handler goroutine each.
NumHandlers == 1

Handlers == 1..NumHandlers

\* Streaming.Buffer of the default configuration.
StreamingBuffer == TRUE

Paths == {"/v1/messages", "/v1/chat/completions", "/v1/responses", "/v1/embeddings"}

\* A request: the agent segment of the URL ("" when it has none), the API
\* path and the stream flag of its body.
Requests == [agent : {"main", ""}, path : Paths, stream : BOOLEAN]

NoRequest == [agent |-> "", path |-> "", stream |-> FALSE]

detectAPIType_NoUnknown(apiPath) ==
    IF apiPath = "/v1/messages" THEN APITypeAnthropic ELSE APITypeOpenAI

detectAPIType(apiPath) ==
    CASE apiPath = "/v1/messages" -> APITypeAnthropic
      [] apiPath = "/v1/chat/completions" -> APITypeOpenAI
      [] apiPath = "/v1/responses" -> APITypeOpenAI
      [] OTHER -> APITypeUnknown

ParseRoute(req) ==
    [agentID |-> IF req.agent = "" THEN "default" ELSE req.agent,
     apiPath |-> req.path,
     apiType |-> detectAPIType(req.path)]

\* The format the provider answers in on each of its paths.
WireFormat(apiPath) ==
    CASE apiPath = "/v1/messages" -> APITypeAnthropic
      [] apiPath = "/v1/chat/completions" -> APITypeOpenAI
      [] apiPath = "/v1/responses" -> APITypeOpenAIResponses
      [] OTHER -> APITypeUnknown

\* ---- the audit log as the handler uses it: append from Lock to Unlock ----

AuditState ==
    [seq |-> aSeq, lastHash |-> aLastHash, fileDate |-> aFileDate,
     files |-> files, created |-> created, index |-> index, written |-> <<>>]

append(s, req, outcome) ==
    LET e == Entry(s.seq + 1, today, req, s.lastHash)
        opened == (s.fileDate = NoFile \/ s.fileDate # today) /\ outcome # "open"
    IN [seq |-> s.seq + 1,
        lastHash |-> IF outcome = "ok" THEN e.hash ELSE s.lastHash,
        fileDate |-> IF opened THEN today ELSE s.fileDate,
        files |-> IF LineWritten(outcome)
                  THEN [s.files EXCEPT ![today] = Append(@, e)] ELSE s.files,
        created |-> IF opened THEN s.created \cup {today} ELSE s.created,
        index |-> IF outcome = "ok" THEN insertRow(s.index, e) ELSE s.index,
        written |-> IF LineWritten(outcome) THEN Append(s.written, e) ELSE s.written]

RECURSIVE appendAll(_, _, _)
appendAll(s, reqs, outcome) ==
    IF reqs = <<>> THEN s
    ELSE appendAll(append(s, Head(reqs), outcome), Tail(reqs), outcome)

\* The audit variables after the handler's appends.
Audited(s, outcome) ==
    /\ aSeq' = s.seq
    /\ aLastHash' = s.lastHash
    /\ aFileDate' = s.fileDate
    /\ files' = s.files
    /\ created' = s.created
    /\ index' = s.index
    /\ hist' = [hist EXCEPT !.failed = @ \/ (s.seq # aSeq /\ outcome # "ok")]
    /\ UNCHANGED <<today, genesis, mu, apc, areq, aentry, verifyRes>>

HandlerOutcomes == {"ok", "write"}

NoServed ==
    [set |-> FALSE, req |-> NoRequest, killedAtGate |-> FALSE, forwarded |-> FALSE,
     status |-> 0, how |-> "", items |-> <<>>, evaluated |-> <<>>, logged |-> <<>>,
     appendFailed |-> FALSE,
     body |-> NoBody, events |-> <<>>]

ProxyInit ==
    /\ killed = {}
    /\ kEntries = <<>>
    /\ ksFile = NoKilledFile
    /\ kEvents = 0
    /\ cli = NoCli
    /\ dash = NoDash
    /\ regStatus = [a \in Agents |-> ""]
    /\ kRuns = 0
    /\ kLast = NoCall
    /\ kRead = NoRead
    /\ kAdded = {}
    /\ hpc = [t \in Handlers |-> "idle"]
    /\ hreq = [t \in Handlers |-> NoRequest]
    /\ nreq = 0
    /\ served = NoServed

Respond_FailClosed(resp, appendFailed) ==
    IF appendFailed
    THEN [resp EXCEPT !.status = 500, !.body = NoBody, !.events = <<>>]
    ELSE resp

\* LogToolCall and LogKill have no result: append logs a failed write with
\* slog.Error and returns, and the handler sends the response it has built.
Respond(resp, appendFailed) == resp

\* ServeHTTP for a killed agent: the route is parsed, the kill switch says
\* killed, the synthetic answer is sent with 200, the request is logged with
\* LogKill, the handler returns.
ServeKilled(t, req, outcome) ==
    /\ hpc[t] = "idle"
    /\ nreq < MaxRequests
    /\ LET route == ParseRoute(req)
           s == append(AuditState, LogKill(route.agentID), outcome)
       IN /\ IsKilled(route.agentID)
          /\ Audited(s, outcome)
          /\ served' = Respond([NoServed EXCEPT
                          !.set = TRUE, !.req = req,
                          !.killedAtGate = route.agentID \in killed,
                          !.status = 200, !.how = "respondKilled",
                          !.logged = s.written, !.appendFailed = outcome # "ok",
                          !.body = buildKilledResponse(route.apiType)], outcome # "ok")
    /\ nreq' = nreq + 1
    /\ UNCHANGED <<killed, kEntries, ksFile, killFileVars, hpc, hreq>>
    /\ UNCHANGED <<engineVars, rewriteVars, registryVars, serviceVars>>

\* ServeHTTP for any other agent, up to forwardRequest: the request is on
\* its way to the upstream.
ServeForward(t, req) ==
    /\ hpc[t] = "idle"
    /\ nreq < MaxRequests
    /\ ~IsKilled(ParseRoute(req).agentID)
    /\ hpc' = [hpc EXCEPT ![t] = IF ParseRoute(req).agentID \in killed
                                 THEN "forwarded-killed" ELSE "forwarded"]
    /\ hreq' = [hreq EXCEPT ![t] = req]
    /\ nreq' = nreq + 1
    /\ UNCHANGED <<killed, kEntries, ksFile, killFileVars, served>>
    /\ UNCHANGED <<auditVars, engineVars, rewriteVars, registryVars, serviceVars>>

Forwarded(t) == hpc[t] \in {"forwarded", "forwarded-killed"}

Returned(t, rec) ==
    /\ served' = Respond([rec EXCEPT !.set = TRUE, !.req = hreq[t], !.forwarded = TRUE,
                                     !.killedAtGate = hpc[t] = "forwarded-killed"],
                          rec.appendFailed)
    /\ hpc' = [hpc EXCEPT ![t] = "idle"]
    /\ hreq' = [hreq EXCEPT ![t] = NoRequest]
    /\ UNCHANGED <<killed, kEntries, ksFile, killFileVars, nreq>>
    /\ UNCHANGED <<engineVars, rewriteVars, registryVars, serviceVars>>

\* forwardRequest fails: 502.
UpstreamError(t) ==
    /\ Forwarded(t)
    /\ Returned(t, [NoServed EXCEPT !.status = 502, !.how = "error"])
    /\ UNCHANGED auditVars

Payload(req, items) ==
    IF req.stream
    THEN [body |-> NoBody, events |-> UpstreamEvents(WireFormat(req.path), items)]
    ELSE [body |-> UpstreamBody(WireFormat(req.path), items), events |-> <<>>]

\* passThrough: an unknown API type; the upstream answer is copied.
PassThrough(t, items) ==
    /\ Forwarded(t)
    /\ ParseRoute(hreq[t]).apiType = APITypeUnknown
    /\ Returned(t, [NoServed EXCEPT !.status = 200, !.how = "passThrough",
                                    !.items = items,
                                    !.body = Payload(hreq[t], items).body,
                                    !.events = Payload(hreq[t], items).events])
    /\ UNCHANGED auditVars

\* The loop of handleStreaming and handleNonStreaming over the tool calls:
\* Evaluate, LogToolCall.
Decisions(agentID, calls) == [i \in DOMAIN calls |-> Evaluate(eRules, agentID, calls[i])]

ToolCallLogs(agentID, calls) ==
    [i \in DOMAIN calls |->
        LogToolCall(agentID, calls[i].name, Evaluate(eRules, agentID, calls[i]).action)]

BlockedOf(agentID, calls) ==
    SelectSeq(calls, LAMBDA tc : Evaluate(eRules, agentID, tc).action = "block")

\* handleNonStreaming: Extract, the loop, modifyNonStreamingResponse when a
\* call was blocked, the body is sent.
HandleNonStreaming(t, items, outcome) ==
    /\ Forwarded(t)
    /\ LET route == ParseRoute(hreq[t])
           body == UpstreamBody(WireFormat(route.apiPath), items)
           toolCalls == Extract(body, route.apiType)
           blocked == BlockedOf(route.agentID, toolCalls)
           s == appendAll(AuditState, ToolCallLogs(route.agentID, toolCalls), outcome)
       IN /\ route.apiType # APITypeUnknown
          /\ ~(hreq[t].stream /\ StreamingBuffer)
          /\ outcome # "ok" => toolCalls # <<>>
          /\ Audited(s, outcome)
          /\ Returned(t, [NoServed EXCEPT
                            !.status = 200, !.how = "handleNonStreaming",
                            !.items = items, !.evaluated = toolCalls,
                            !.logged = s.written, !.appendFailed = outcome # "ok",
                            !.body = IF Len(blocked) > 0
                                     THEN modifyNonStreamingResponse(
                                              body, route.apiType, blocked,
                                              Decisions(route.agentID, blocked))
                                     ELSE body])

\* handleStreaming: bufferAll (every event arrives before the deadline),
\* the loop, buildModifiedStream when a call was blocked, the events are
\* replayed.
HandleStreaming(t, items, outcome) ==
    /\ Forwarded(t)
    /\ LET route == ParseRoute(hreq[t])
           events == UpstreamEvents(WireFormat(route.apiPath), items)
           toolCalls == reconstruct(events, route.apiType)
           blocked == BlockedOf(route.agentID, toolCalls)
           s == appendAll(AuditState, ToolCallLogs(route.agentID, toolCalls), outcome)
       IN /\ route.apiType # APITypeUnknown
          /\ hreq[t].stream /\ StreamingBuffer
          /\ outcome # "ok" => toolCalls # <<>>
          /\ Audited(s, outcome)
          /\ Returned(t, [NoServed EXCEPT
                            !.status = 200, !.how = "handleStreaming",
                            !.items = items, !.evaluated = toolCalls,
                            !.logged = s.written, !.appendFailed = outcome # "ok",
                            !.events = IF Len(blocked) > 0
                                       THEN buildModifiedStream(
                                                events, route.apiType, blocked,
                                                BlockMessages(blocked))
                                       ELSE events])

(***************************************************************************)
(* Buffering of an event stream: bufferAll and the parser goroutine        *)
(***************************************************************************)

\* One frame of the upstream stream: the name of its "event:" line, the
\* number of "data:" lines its payload is spread over (0: a frame of
\* comment lines only), the lines after the first one that carry no field
\* name, and the payload.
Frame(event, lines, stray, evt) ==
    [event |-> event, lines |-> lines, stray |-> stray, evt |-> evt]

PingFrame == Frame("ping", 1, 0, Evt("ping", 0, "", 0, "", "", ""))

CommentFrame == Frame("", 0, 0, Evt("", 0, "", 0, "", "", ""))

\* The name on the "event:" line: Anthropic names every event, the OpenAI
\* chat stream has data lines only.
EventName(shape, e) == IF shape = APITypeAnthropic THEN e.ev ELSE ""

Frames(shape, events) ==
    [i \in DOMAIN events |-> Frame(EventName(shape, events[i]), 1, 0, events[i])]

\* What an upstream stream may hold besides the answer: a keep-alive ping
\* or a comment after its first event, or a first event whose payload
\* comes in two data lines.
Noises == {"none", "ping", "comment", "two_lines"}

Noisy(frames, noise) ==
    IF frames = <<>> THEN frames
    ELSE CASE noise = "ping" -> <<Head(frames), PingFrame>> \o Tail(frames)
           [] noise = "comment" -> <<Head(frames), CommentFrame>> \o Tail(frames)
           [] noise = "two_lines" -> <<[Head(frames) EXCEPT !.lines = 2]>> \o Tail(frames)
           [] OTHER -> frames

\* An SSEEvent: Event, and Data as its payload over the lines that
\* parseSSEStream joined with "\n".
SSEEvent(event, lines, evt) == [event |-> event, lines |-> lines, evt |-> evt]

\* The payloads of buffered events, as reconstruct and buildModifiedStream
\* read them from Data.
DataOf(events) == [i \in DOMAIN events |-> events[i].evt]

\* The events buildModifiedStream returns: Data is one marshalled line.
Marshalled(shape, evts) ==
    [i \in DOMAIN evts |-> SSEEvent(EventName(shape, evts[i]), 1, evts[i])]

\* parseSSEStream on the blank line that ends a frame: a frame without
\* data and a ping are skipped, any other frame is appended.
parseFrame(events, f) ==
    IF f.lines = 0 \/ f.event = "ping" THEN events
    ELSE Append(events, SSEEvent(f.event, f.lines, f.evt))

\* parseSSEStream: the frame that ends the scan.
IsTerminal(f) == f.lines > 0 /\ (f.event = "message_stop" \/ f.evt.ev = "[DONE]")

\* The replay loop of handleStreaming: "event: %s\n" for a named event,
\* then "data: %s\n\n" with Data as it is: of a payload of several lines
\* only the first follows "data:".
replay(events) ==
    [i \in DOMAIN events |->
        Frame(events[i].event, 1, events[i].lines - 1, events[i].evt)]

NoStream == [apiType |-> "", agent |-> "", frames |-> <<>>, closes |-> FALSE]

NoBuffered ==
    [done |-> FALSE, timedOut |-> FALSE, arrived |-> <<>>, terminal |-> FALSE,
     events |-> <<>>, evaluated |-> <<>>, blocked |-> <<>>, emitted |-> <<>>]

BufferInit ==
    /\ bIn = NoStream
    /\ bpc = "idle"
    /\ bRead = 0
    /\ bEvents = <<>>
    /\ bCh = <<>>
    /\ bOut = NoBuffered

\* The frames of the longest stream of the model.
MaxFrames == 11

FirstFrames(frames, k) == SubSeq(frames, 1, IF k < Len(frames) THEN k ELSE Len(frames))

\* The upstream streams of the model: the stream of an answer, or the
\* frames of it that upstream sends before it stalls or closes.
Streams ==
    {[apiType |-> a, agent |-> "main",
      frames |-> FirstFrames(Noisy(Frames(a, UpstreamEvents(a, q)), n), k),
      closes |-> c] :
        a \in {APITypeAnthropic, APITypeOpenAI}, q \in Answers, n \in Noises,
        k \in {2, 5, MaxFrames}, c \in BOOLEAN}

\* handleStreaming calls bufferAll: the parser goroutine starts, the handler
\* waits in select.
BufferAll(s) ==
    /\ bpc = "idle"
    /\ ~bOut.done
    /\ bIn' = s
    /\ bpc' = "select"
    /\ UNCHANGED <<bRead, bEvents, bCh, bOut>>
    /\ UNCHANGED <<rwIn, rwOut>>
    /\ UNCHANGED <<auditVars, engineVars, proxyVars, registryVars, serviceVars>>

\* The parser goroutine: scanner.Scan returns the lines of the next frame.
\* On the terminal frame the loop breaks and the result goes into ch.
ParseFrame ==
    /\ bpc # "idle"
    /\ bCh = <<>>
    /\ bRead < Len(bIn.frames)
    /\ ~(bRead > 0 /\ IsTerminal(bIn.frames[bRead]))
    /\ LET f == bIn.frames[bRead + 1]
       IN /\ bRead' = bRead + 1
          /\ bEvents' = parseFrame(bEvents, f)
          /\ bCh' = IF IsTerminal(f) THEN <<parseFrame(bEvents, f)>> ELSE bCh
    /\ UNCHANGED <<bIn, bpc, bOut>>
    /\ UNCHANGED <<rwIn, rwOut>>
    /\ UNCHANGED <<auditVars, engineVars, proxyVars, registryVars, serviceVars>>

\* The parser goroutine: upstream closed the body, scanner.Scan returns
\* false, the result goes into ch.
ParseEOF ==
    /\ bpc # "idle"
    /\ bCh = <<>>
    /\ bRead = Len(bIn.frames)
    /\ bIn.closes
    /\ ~(bRead > 0 /\ IsTerminal(bIn.frames[bRead]))
    /\ bCh' = <<bEvents>>
    /\ UNCHANGED <<bIn, bpc, bRead, bEvents, bOut>>
    /\ UNCHANGED <<rwIn, rwOut>>
    /\ UNCHANGED <<auditVars, engineVars, proxyVars, registryVars, serviceVars>>

\* handleStreaming after bufferAll returned events: reconstruct, the loop
\* over the tool calls with Evaluate and LogToolCall, buildModifiedStream
\* when a call was blocked, the replay loop.
Streamed(events, timedOut) ==
    LET toolCalls == reconstruct(DataOf(events), bIn.apiType)
        blocked == BlockedOf(bIn.agent, toolCalls)
        s == appendAll(AuditState, ToolCallLogs(bIn.agent, toolCalls), "ok")
    IN /\ Audited(s, "ok")
       /\ bOut' = [done |-> TRUE, timedOut |-> timedOut, arrived |-> bEvents,
                   terminal |-> bRead > 0 /\ IsTerminal(bIn.frames[bRead]),
                   events |-> events, evaluated |-> toolCalls, blocked |-> blocked,
                   emitted |-> replay(IF Len(blocked) > 0
                                      THEN Marshalled(bIn.apiType,
                                               buildModifiedStream(
                                                   DataOf(events), bIn.apiType, blocked,
                                                   BlockMessages(blocked)))
                                      ELSE events)]
       /\ bpc' = "done"

\* bufferAll: select receives the parser's result.
BufferReceive ==
    /\ bpc = "select"
    /\ bCh # <<>>
    /\ Streamed(bCh[1], FALSE)
    /\ UNCHANGED <<bIn, bRead, bEvents, bCh>>
    /\ UNCHANGED <<rwIn, rwOut>>
    /\ UNCHANGED <<engineVars, proxyVars, registryVars, serviceVars>>

\* The events bufferAll has after time.After fired: the parser's result
\* when ch holds it, nothing otherwise.
afterTimeout(ch, arrived) == IF ch # <<>> THEN ch[1] ELSE <<>>

\* bufferAll: select takes time.After, then the inner select with default.
BufferTimeout ==
    /\ bpc = "select"
    /\ Streamed(afterTimeout(bCh, bEvents), TRUE)
    /\ UNCHANGED <<bIn, bRead, bEvents, bCh>>
    /\ UNCHANGED <<rwIn, rwOut>>
    /\ UNCHANGED <<engineVars, proxyVars, registryVars, serviceVars>>

BufferNext ==
    \/ \E s \in Streams : BufferAll(s)
    \/ ParseFrame
    \/ ParseEOF
    \/ BufferReceive
    \/ BufferTimeout

(***************************************************************************)
(* The watcher of the configuration directory                              *)
(***************************************************************************)

\* The file system events of one run.
MaxFsEvents == 3

\* fsnotify.Op: the operations of one event, a bit mask.
FsOps == {{"CREATE"}, {"WRITE"}, {"REMOVE"}, {"RENAME"}, {"CHMOD"}, {"WRITE", "CHMOD"}}

\* filepath.Base(event.Name) of the files of the watched directory.
FsNames == {"rules.yaml", "killed.yaml", "config.yaml", "rules.yaml.tmp"}

FsEvent(name, op) == [name |-> name, op |-> op]

NoWatched == [set |-> FALSE, event |-> FsEvent("", {}), invoked |-> <<>>]

callbacksFor_AnyOp(event) ==
    CASE event.name = "rules.yaml" -> <<"OnRulesChange">>
      [] event.name = "killed.yaml" -> <<"OnKillSwitchChange">>
      [] OTHER -> <<>>

\* Watcher.processEvents on one event: the callbacks it invokes.
callbacksFor(event) ==
    IF event.op \cap {"WRITE", "CREATE"} = {} THEN <<>>
    ELSE CASE event.name = "rules.yaml" -> <<"OnRulesChange">>
           [] event.name = "killed.yaml" -> <<"OnKillSwitchChange">>
           [] OTHER -> <<>>

\* The contents another program leaves in rules.yaml and killed.yaml.
WatchedRulesFiles == {f \in RulesFiles : f.kind = "unparsable" \/ Len(f.rules) = 2}

WatchedKilledFiles == {KilledFile(FALSE, <<>>), KilledFile(TRUE, <<"main">>)}

WatcherInit ==
    /\ wEvents = <<>>
    /\ wPosted = 0
    /\ wLast = NoWatched

\* A program changes a file of the directory and fsnotify queues the event:
\* a write or a create leaves new content, a remove or a rename takes the
\* file away, a chmod leaves it as it is.
FsChange(name, op, rules, list) ==
    /\ wEvents = <<>>
    /\ wPosted < MaxFsEvents
    /\ wPosted' = wPosted + 1
    /\ wEvents' = <<FsEvent(name, op)>>
    /\ eFile' = IF name # "rules.yaml" THEN eFile
                ELSE IF op \cap {"WRITE", "CREATE"} # {} THEN rules
                ELSE IF op \cap {"REMOVE", "RENAME"} # {} THEN NoRulesFile
                ELSE eFile
    /\ ksFile' = IF name # "killed.yaml" THEN ksFile
                 ELSE IF op \cap {"WRITE", "CREATE"} # {} THEN list
                 ELSE IF op \cap {"REMOVE", "RENAME"} # {} THEN NoKilledFile
                 ELSE ksFile
    /\ UNCHANGED wLast
    /\ UNCHANGED <<eCustom, eToggles, eRules, eLast, eCall, emu, epc, eloc, eStore, eReload>>
    /\ UNCHANGED <<killed, kEntries, hpc, hreq, nreq, served, killFileVars>>
    /\ UNCHANGED <<auditVars, rewriteVars, registryVars, followVars, hubVars, apiVars>>

\* Has(cbs, cb): processEvents invoked the callback cb.
Has(cbs, cb) == \E i \in DOMAIN cbs : cbs[i] = cb

\* Watcher.processEvents takes one event from fsWatcher.Events. The
\* callbacks are those of runStart: OnRulesChange is Engine.Reload,
\* OnKillSwitchChange is KillSwitch.Reload; their errors are printed.
ProcessEvent ==
    /\ wEvents # <<>>
    /\ wEvents' = Tail(wEvents)
    /\ LET cbs == callbacksFor(Head(wEvents))
           eng == loadUnlocked(eFile, ThisEngine)
           ks == Reload(ThisKillSwitch, ksFile)
       IN /\ wLast' = [set |-> TRUE, event |-> Head(wEvents), invoked |-> cbs]
          /\ IF Has(cbs, "OnRulesChange")
             THEN /\ eCustom' = eng.custom
                  /\ eToggles' = eng.toggles
                  /\ eRules' = eng.rules
                  /\ eCall' = [NoEngineCall EXCEPT !.op = "reload", !.err = eng.err,
                                                   !.before = ThisEngine]
             ELSE UNCHANGED <<eCustom, eToggles, eRules, eCall>>
          /\ IF Has(cbs, "OnKillSwitchChange")
             THEN /\ killed' = ks.ks.killed
                  /\ kEntries' = ks.ks.entries
                  /\ kLast' = [op |-> "reload", agent |-> "", err |-> ks.err,
                               before |-> ThisKillSwitch, file |-> ksFile,
                               saved |-> ksFile]
             ELSE UNCHANGED <<killed, kEntries, kLast>>
    /\ UNCHANGED wPosted
    /\ UNCHANGED <<eLast, engineTaskVars>>
    /\ UNCHANGED <<ksFile, hpc, hreq, nreq, served>>
    /\ UNCHANGED <<kEvents, cli, dash, regStatus, kRuns, kRead, kAdded>>
    /\ UNCHANGED <<auditVars, rewriteVars, registryVars, followVars, hubVars, apiVars>>

WatcherNext ==
    \/ \E n \in FsNames, op \in FsOps, f \in WatchedRulesFiles, l \in WatchedKilledFiles :
           FsChange(n, op, f, l)
    \/ ProcessEvent

(***************************************************************************)
(* `ctrlai audit tail -f`: AuditLog.Follow beside the proxy's appends      *)
(***************************************************************************)

\* readEntriesAfter: the entries of today's file with a seq above afterSeq;
\* no file gives no entry.
readEntriesAfter(afterSeq) ==
    IF today \notin created THEN <<>>
    ELSE SelectSeq(files[today], LAMBDA e : e.seq > afterSeq)

SeqsOf(entries) == [i \in DOMAIN entries |-> entries[i].seq]

\* The highest seq of the entries, the one seen before when none is above it.
RECURSIVE LastSeen(_, _)
LastSeen(seen, entries) ==
    IF entries = <<>> THEN seen
    ELSE LastSeen(IF Head(entries).seq > seen THEN Head(entries).seq ELSE seen,
                  Tail(entries))

FollowInit ==
    /\ fpc = "idle"
    /\ fLastSeq = 0
    /\ fStart = 0
    /\ fDelivered = <<>>
    /\ fCancelled = FALSE

\* The command opens the audit directory (audit.New recovers seq from the
\* last entry on disk) and calls Follow: lastSeq := a.seq.
FollowStart ==
    /\ fpc = "idle"
    /\ fpc' = "following"
    /\ fLastSeq' = recoverState(loadGenesis).seq
    /\ fStart' = recoverState(loadGenesis).seq
    /\ UNCHANGED <<fDelivered, fCancelled>>
    /\ UNCHANGED <<auditVars, engineVars, rewriteVars, proxyVars, registryVars, watcherVars, hubVars, apiVars>>

\* Follow: select takes ticker.C; the entries readEntriesAfter returns go to
\* the callback one by one and lastSeq moves to the highest seq.
FollowPoll ==
    /\ fpc = "following"
    /\ fDelivered' = fDelivered \o SeqsOf(readEntriesAfter(fLastSeq))
    /\ fLastSeq' = LastSeen(fLastSeq, readEntriesAfter(fLastSeq))
    /\ UNCHANGED <<fpc, fStart, fCancelled>>
    /\ UNCHANGED <<auditVars, engineVars, rewriteVars, proxyVars, registryVars, watcherVars, hubVars, apiVars>>

\* The context of Follow is cancelled.
FollowCancel ==
    /\ fpc = "following"
    /\ ~fCancelled
    /\ fCancelled' = TRUE
    /\ UNCHANGED <<fpc, fLastSeq, fStart, fDelivered>>
    /\ UNCHANGED <<auditVars, engineVars, rewriteVars, proxyVars, registryVars, watcherVars, hubVars, apiVars>>

\* Follow: select takes ctx.Done and Follow returns ctx.Err.
FollowReturn ==
    /\ fpc = "following"
    /\ fCancelled
    /\ fpc' = "returned"
    /\ UNCHANGED <<fLastSeq, fStart, fDelivered, fCancelled>>
    /\ UNCHANGED <<auditVars, engineVars, rewriteVars, proxyVars, registryVars, watcherVars, hubVars, apiVars>>

FollowNext ==
    \/ AdvanceDay
    \/ \E t \in Tasks, req \in AuditReqs : AppendBegin(t, req)
    \/ \E t \in Tasks, o \in WriteOutcomes : AppendWrite(t, o)
    \/ \E t \in Tasks, ok \in BOOLEAN : AppendFinish(t, ok)
    \/ FollowStart
    \/ FollowPoll
    \/ FollowCancel
    \/ FollowReturn

(***************************************************************************)
(* The dashboard's WebSocket hub                                           *)
(***************************************************************************)
NumConns == 2
Conns == 1..NumConns

\* cap(wsConn.send): 64 in handleWebSocket.
SendCap == 2

\* cap(wsHub.broadcastCh): 256 in newWSHub.
BroadcastCap == 2

MaxBroadcasts == 4

NoRange == [set |-> FALSE, msg |-> 0, start |-> {}, full |-> {}, got |-> {}]

\* newWSHub; no client has connected.
HubInit ==
    /\ connections = {}
    /\ broadcastCh = <<>>
    /\ send = [c \in Conns |-> <<>>]
    /\ sendClosed = [c \in Conns |-> 0]
    /\ hubpc = "select"
    /\ hubMsg = 0
    /\ hubRest = {}
    /\ hubPanic = ""
    /\ wspc = [c \in Conns |-> "none"]
    /\ wpump = [c \in Conns |-> "idle"]
    /\ wsGot = [c \in Conns |-> 0]
    /\ hubSent = 0
    /\ hubLast = NoRange
    /\ dropAt = [c \in Conns |-> 0]

\* run, case unregisterCh: `if _, ok := h.connections[conn]; ok`.
known_Always(conns, c) == TRUE

known(conns, c) == c \in conns

\* run, default branch of the inner select: delete(h.connections, conn).
deleted_Kept(conns, c) == conns

deleted(conns, c) == conns \ {c}

\* close(conn.send): closing a closed channel panics.
closeSend(c) ==
    /\ sendClosed' = [sendClosed EXCEPT ![c] = @ + 1]
    /\ hubPanic' = IF sendClosed[c] > 0 THEN "close of closed channel" ELSE hubPanic

\* handleWebSocket up to `d.wsHub.registerCh <- client`, where it waits for
\* the hub; a failed upgrade returns.
HandleWebSocket(c, upgraded) ==
    /\ hubPanic = ""
    /\ wspc[c] = "none"
    /\ wspc' = [wspc EXCEPT ![c] = IF upgraded THEN "upgraded" ELSE "gone"]
    /\ UNCHANGED <<connections, broadcastCh, send, sendClosed, hubpc, hubMsg, hubRest,
                   hubPanic, wpump, wsGot, hubSent, hubLast, dropAt>>
    /\ UNCHANGED <<auditVars, engineVars, rewriteVars, proxyVars, registryVars,
                   watcherVars, followVars, apiVars>>

\* run, case registerCh; the handler goes on and starts writePump and
\* readPump.
HubRegister(c) ==
    /\ hubPanic = ""
    /\ hubpc = "select"
    /\ wspc[c] = "upgraded"
    /\ connections' = connections \cup {c}
    /\ wspc' = [wspc EXCEPT ![c] = "reading"]
    /\ wpump' = [wpump EXCEPT ![c] = "running"]
    /\ UNCHANGED <<broadcastCh, send, sendClosed, hubpc, hubMsg, hubRest, hubPanic,
                   wsGot, hubSent, hubLast, dropAt>>
    /\ UNCHANGED <<auditVars, engineVars, rewriteVars, proxyVars, registryVars,
                   watcherVars, followVars, apiVars>>

\* readPump: ReadMessage fails (the client left, or writePump closed the
\* socket); the deferred function waits at `hub.unregisterCh <- c`.
ReadPumpError(c) ==
    /\ hubPanic = ""
    /\ wspc[c] = "reading"
    /\ wspc' = [wspc EXCEPT ![c] = "closing"]
    /\ UNCHANGED <<connections, broadcastCh, send, sendClosed, hubpc, hubMsg, hubRest,
                   hubPanic, wpump, wsGot, hubSent, hubLast, dropAt>>
    /\ UNCHANGED <<auditVars, engineVars, rewriteVars, proxyVars, registryVars,
                   watcherVars, followVars, apiVars>>

\* run, case unregisterCh.
HubUnregister(c) ==
    /\ hubPanic = ""
    /\ hubpc = "select"
    /\ wspc[c] = "closing"
    /\ wspc' = [wspc EXCEPT ![c] = "gone"]
    /\ IF known(connections, c)
       THEN /\ connections' = connections \ {c}
            /\ closeSend(c)
       ELSE UNCHANGED <<connections, sendClosed, hubPanic>>
    /\ UNCHANGED <<broadcastCh, send, hubpc, hubMsg, hubRest, wpump, wsGot, hubSent,
                   hubLast, dropAt>>
    /\ UNCHANGED <<auditVars, engineVars, rewriteVars, proxyVars, registryVars,
                   watcherVars, followVars, apiVars>>

\* broadcast: the message goes into broadcastCh when there is room and is
\* dropped otherwise.
Broadcast ==
    /\ hubPanic = ""
    /\ hubSent < MaxBroadcasts
    /\ hubSent' = hubSent + 1
    /\ broadcastCh' = IF Len(broadcastCh) < BroadcastCap
                      THEN Append(broadcastCh, hubSent + 1)
                      ELSE broadcastCh
    /\ UNCHANGED <<connections, send, sendClosed, hubpc, hubMsg, hubRest, hubPanic,
                   wspc, wpump, wsGot, hubLast, dropAt>>
    /\ UNCHANGED <<auditVars, engineVars, rewriteVars, proxyVars, registryVars,
                   watcherVars, followVars, apiVars>>

\* run, case broadcastCh: the range over h.connections begins.
HubTake ==
    /\ hubPanic = ""
    /\ hubpc = "select"
    /\ broadcastCh # <<>>
    /\ hubMsg' = Head(broadcastCh)
    /\ broadcastCh' = Tail(broadcastCh)
    /\ hubRest' = connections
    /\ hubpc' = "range"
    /\ hubLast' = [set |-> TRUE, msg |-> Head(broadcastCh), start |-> connections,
                   full |-> {}, got |-> {}]
    /\ UNCHANGED <<connections, send, sendClosed, hubPanic, wspc, wpump, wsGot,
                   hubSent, dropAt>>
    /\ UNCHANGED <<auditVars, engineVars, rewriteVars, proxyVars, registryVars,
                   watcherVars, followVars, apiVars>>

\* run, one iteration of the range: `select { case conn.send <- msg: default:
\* delete; close }`.  Sending on a closed channel panics.
HubDeliver(c) ==
    /\ hubPanic = ""
    /\ hubpc = "range"
    /\ c \in hubRest
    /\ hubRest' = hubRest \ {c}
    /\ IF sendClosed[c] > 0
       THEN /\ hubPanic' = "send on closed channel"
            /\ UNCHANGED <<connections, send, sendClosed, hubLast, dropAt>>
       ELSE IF Len(send[c]) < SendCap
       THEN /\ send' = [send EXCEPT ![c] = Append(@, hubMsg)]
            /\ hubLast' = [hubLast EXCEPT !.got = @ \cup {c}]
            /\ UNCHANGED <<connections, sendClosed, hubPanic, dropAt>>
       ELSE /\ connections' = deleted(connections, c)
            /\ closeSend(c)
            /\ hubLast' = [hubLast EXCEPT !.full = @ \cup {c}]
            /\ dropAt' = [dropAt EXCEPT ![c] = hubMsg]
            /\ UNCHANGED send
    /\ UNCHANGED <<broadcastCh, hubpc, hubMsg, wspc, wpump, wsGot, hubSent>>
    /\ UNCHANGED <<auditVars, engineVars, rewriteVars, proxyVars, registryVars,
                   watcherVars, followVars, apiVars>>

\* run: the range is over and the loop is back at its select.
HubRangeEnd ==
    /\ hubPanic = ""
    /\ hubpc = "range"
    /\ hubRest = {}
    /\ hubpc' = "select"
    /\ UNCHANGED <<connections, broadcastCh, send, sendClosed, hubMsg, hubRest,
                   hubPanic, wspc, wpump, wsGot, hubSent, hubLast, dropAt>>
    /\ UNCHANGED <<auditVars, engineVars, rewriteVars, proxyVars, registryVars,
                   watcherVars, followVars, apiVars>>

\* writePump: one message of `for msg := range c.send`; a failed write ends
\* the pump.
WritePump(c, written) ==
    /\ hubPanic = ""
    /\ wpump[c] = "running"
    /\ send[c] # <<>>
    /\ send' = [send EXCEPT ![c] = Tail(@)]
    /\ wsGot' = [wsGot EXCEPT ![c] = IF written THEN Head(send[c]) ELSE @]
    /\ wpump' = [wpump EXCEPT ![c] = IF written THEN "running" ELSE "exited"]
    /\ UNCHANGED <<connections, broadcastCh, sendClosed, hubpc, hubMsg, hubRest,
                   hubPanic, wspc, hubSent, hubLast, dropAt>>
    /\ UNCHANGED <<auditVars, engineVars, rewriteVars, proxyVars, registryVars,
                   watcherVars, followVars, apiVars>>

\* writePump: c.send is closed and drained, the range ends.
WritePumpClosed(c) ==
    /\ hubPanic = ""
    /\ wpump[c] = "running"
    /\ send[c] = <<>>
    /\ sendClosed[c] > 0
    /\ wpump' = [wpump EXCEPT ![c] = "exited"]
    /\ UNCHANGED <<connections, broadcastCh, send, sendClosed, hubpc, hubMsg, hubRest,
                   hubPanic, wspc, wsGot, hubSent, hubLast, dropAt>>
    /\ UNCHANGED <<auditVars, engineVars, rewriteVars, proxyVars, registryVars,
                   watcherVars, followVars, apiVars>>

HubNext ==
    \/ \E c \in Conns, upgraded \in BOOLEAN : HandleWebSocket(c, upgraded)
    \/ \E c \in Conns : HubRegister(c)
    \/ \E c \in Conns : ReadPumpError(c)
    \/ \E c \in Conns : HubUnregister(c)
    \/ Broadcast
    \/ HubTake
    \/ \E c \in Conns : HubDeliver(c)
    \/ HubRangeEnd
    \/ \E c \in Conns, written \in BOOLEAN : WritePump(c, written)
    \/ \E c \in Conns : WritePumpClosed(c)


(***************************************************************************)
(* The dashboard's rule handlers and the watcher of rules.yaml             *)
(***************************************************************************)
MaxApiCalls == 4

ApiInit ==
    /\ apiPc = [t \in Tasks |-> "idle"]
    /\ apiCalls = 0
    /\ apiAdded = {}
    /\ apiRemoved = {}

\* The rules POSTed to /api/rules.
ApiRuleInputs ==
    TaskRuleInputs \cup {Rule("bad_pattern", {"exec"}, "", BadRegex, "block", "bad", FALSE)}

\* handleAPIRules, POST, up to the return of Engine.AddRule (Lock, append,
\* rebuild, Unlock); an error is answered with 400.
ApiAddRule(t, rule) ==
    /\ apiPc[t] = "idle"
    /\ apiCalls < MaxApiCalls
    /\ Len(eCustom) < MaxRules
    /\ apiCalls' = apiCalls + 1
    /\ LET o == addRule(ThisEngine, rule) IN
       /\ eCustom' = o.custom
       /\ eRules' = o.rules
       /\ apiPc' = [apiPc EXCEPT ![t] = IF o.err THEN "idle" ELSE "save"]
       /\ apiAdded' = IF o.err THEN apiAdded ELSE apiAdded \cup {rule.name}
       /\ apiRemoved' = IF o.err THEN apiRemoved ELSE apiRemoved \ {rule.name}
    /\ UNCHANGED <<eToggles, eLast, eCall, engineTaskVars>>
    /\ UNCHANGED <<auditVars, rewriteVars, proxyVars, registryVars,
                   watcherVars, followVars, hubVars>>

\* handleAPIRulesDelete up to the return of Engine.RemoveRule.
ApiRemoveRule(t, name) ==
    /\ apiPc[t] = "idle"
    /\ apiCalls < MaxApiCalls
    /\ apiCalls' = apiCalls + 1
    /\ LET o == removeRule(ThisEngine, name) IN
       /\ eCustom' = o.custom
       /\ eRules' = o.rules
       /\ apiPc' = [apiPc EXCEPT ![t] = IF o.err THEN "idle" ELSE "save"]
    /\ apiRemoved' = apiRemoved \cup {name}
    /\ UNCHANGED apiAdded
    /\ UNCHANGED <<eToggles, eLast, eCall, engineTaskVars>>
    /\ UNCHANGED <<auditVars, rewriteVars, proxyVars, registryVars,
                   watcherVars, followVars, hubVars>>

\* The rest of both handlers: Engine.Save (RLock, saveRulesToFile, RUnlock),
\* whose error is only logged, and the 200 answer.  The write of rules.yaml
\* reaches the watcher as a WRITE event.
ApiSave(t, saved) ==
    /\ apiPc[t] = "save"
    /\ apiPc' = [apiPc EXCEPT ![t] = "idle"]
    /\ eFile' = IF saved THEN RulesFile("ok", eCustom, eToggles) ELSE eFile
    /\ wEvents' = IF saved THEN Append(wEvents, FsEvent("rules.yaml", {"WRITE"}))
                  ELSE wEvents
    /\ UNCHANGED <<wPosted, wLast>>
    /\ UNCHANGED <<apiCalls, apiAdded, apiRemoved>>
    /\ UNCHANGED <<eCustom, eToggles, eRules, eLast, eCall, emu, epc, eloc, eStore, eReload>>
    /\ UNCHANGED <<auditVars, rewriteVars, proxyVars, registryVars, followVars, hubVars>>

ApiNext ==
    \/ \E t \in Tasks, r \in ApiRuleInputs : ApiAddRule(t, r)
    \/ \E t \in Tasks, n \in TaskRuleNames : ApiRemoveRule(t, n)
    \/ \E t \in Tasks, saved \in BOOLEAN : ApiSave(t, saved)
    \/ ProcessEvent


(***************************************************************************)
(* Specifications                                                          *)
(***************************************************************************)
(***************************************************************************)
(* The agent registry under concurrent handlers                            *)
(***************************************************************************)

\* The handler goroutines calling the registry at one time.
NumRegTasks == 2

RegTasks == 1..NumRegTasks

\* The registry calls of one run.
MaxRegCalls == 3

\* The readings of time.Now of one run.
MaxClock == 2

Providers == {"anthropic", "openai"}

Models == {"opus", "gpt"}

\* An Agent of Registry.agents (known: the map has the key).
Agent(firstSeen, lastSeen, status, provider, model, total, tools, blocked) ==
    [known |-> TRUE, firstSeen |-> firstSeen, lastSeen |-> lastSeen,
     status |-> status, provider |-> provider, model |-> model,
     totalRequests |-> total, totalToolCalls |-> tools,
     blockedToolCalls |-> blocked]

NoAgent ==
    [known |-> FALSE, firstSeen |-> 0, lastSeen |-> 0,
     status |-> "", provider |-> "", model |-> "",
     totalRequests |-> 0, totalToolCalls |-> 0, blockedToolCalls |-> 0]

NoRegTask == [pc |-> "idle", agent |-> "", provider |-> "", model |-> "",
              before |-> NoAgent, n |-> 0]

NoTouch == [set |-> FALSE, agent |-> "", provider |-> "", model |-> "",
            before |-> NoAgent, after |-> NoAgent]

RegLockFree_NoLock(m) == TRUE

\* Registry.mu.Lock returns when no goroutine holds the mutex.
RegLockFree(m) == m = 0

\* Registry.Touch from Lock to the read of a.Stats.TotalRequests: the agent
\* is looked up, an unknown one is registered as active with FirstSeen now,
\* LastSeen, Provider and Model are assigned.
touchAgent(a, now, provider, model) ==
    LET found == IF a.known THEN a
                 ELSE Agent(now, 0, "active", "", "", 0, 0, 0)
    IN [found EXCEPT !.lastSeen = now, !.provider = provider, !.model = model]

\* Registry.RecordToolCall between Lock and Unlock.
recordToolCall(a, blocked) ==
    IF ~a.known THEN a
    ELSE [a EXCEPT !.totalToolCalls = @ + 1,
                   !.blockedToolCalls = IF blocked THEN @ + 1 ELSE @]

\* Registry.SetStatus between Lock and Unlock.
setStatus(a, status) ==
    IF ~a.known THEN a ELSE [a EXCEPT !.status = status]

\* Registry.Touch: r.mu.Lock.
TouchLock(t, id, provider, model) ==
    /\ rpc[t].pc = "idle"
    /\ rCalls < MaxRegCalls
    /\ RegLockFree(rmu)
    /\ rmu' = t
    /\ rCalls' = rCalls + 1
    /\ rpc' = [rpc EXCEPT ![t] = [pc |-> "locked", agent |-> id,
                                  provider |-> provider, model |-> model,
                                  before |-> rAgents[id], n |-> 0]]
    /\ UNCHANGED <<rAgents, rClock, rTouched, rLast>>
    /\ UNCHANGED <<auditVars, engineVars, rewriteVars, proxyVars, serviceVars>>

\* Registry.Touch: time.Now, the lookup, the assignments, and the read of
\* the counter that TotalRequests++ starts with.
TouchAssign(t) ==
    /\ rpc[t].pc = "locked"
    /\ LET a == touchAgent(rAgents[rpc[t].agent], rClock,
                           rpc[t].provider, rpc[t].model)
       IN /\ rAgents' = [rAgents EXCEPT ![rpc[t].agent] = a]
          /\ rpc' = [rpc EXCEPT ![t].pc = "counted", ![t].n = a.totalRequests]
    /\ UNCHANGED <<rmu, rCalls, rClock, rTouched, rLast>>
    /\ UNCHANGED <<auditVars, engineVars, rewriteVars, proxyVars, serviceVars>>

\* Registry.Touch: the write of TotalRequests++ and the deferred Unlock.
TouchCount(t) ==
    /\ rpc[t].pc = "counted"
    /\ rAgents' = [rAgents EXCEPT ![rpc[t].agent].totalRequests = rpc[t].n + 1]
    /\ rmu' = 0
    /\ rTouched' = [rTouched EXCEPT ![rpc[t].agent] = @ + 1]
    /\ rLast' = [set |-> TRUE, agent |-> rpc[t].agent,
                 provider |-> rpc[t].provider, model |-> rpc[t].model,
                 before |-> rpc[t].before, after |-> rAgents'[rpc[t].agent]]
    /\ rpc' = [rpc EXCEPT ![t] = NoRegTask]
    /\ UNCHANGED <<rCalls, rClock>>
    /\ UNCHANGED <<auditVars, engineVars, rewriteVars, proxyVars, serviceVars>>

\* Registry.RecordToolCall, from Lock to Unlock.
RecordToolCall(t, id, blocked) ==
    /\ rpc[t].pc = "idle"
    /\ rCalls < MaxRegCalls
    /\ RegLockFree(rmu)
    /\ rCalls' = rCalls + 1
    /\ rAgents' = [rAgents EXCEPT ![id] = recordToolCall(@, blocked)]
    /\ UNCHANGED <<rmu, rpc, rClock, rTouched, rLast>>
    /\ UNCHANGED <<auditVars, engineVars, rewriteVars, proxyVars, serviceVars>>

\* Registry.SetStatus, from Lock to Unlock.
RegSetStatus(t, id, status) ==
    /\ rpc[t].pc = "idle"
    /\ rCalls < MaxRegCalls
    /\ RegLockFree(rmu)
    /\ rCalls' = rCalls + 1
    /\ rAgents' = [rAgents EXCEPT ![id] = setStatus(@, status)]
    /\ UNCHANGED <<rmu, rpc, rClock, rTouched, rLast>>
    /\ UNCHANGED <<auditVars, engineVars, rewriteVars, proxyVars, serviceVars>>

\* The clock of time.Now moves on.
RegClockTick ==
    /\ rClock < MaxClock
    /\ rClock' = rClock + 1
    /\ UNCHANGED <<rAgents, rmu, rpc, rCalls, rTouched, rLast>>
    /\ UNCHANGED <<auditVars, engineVars, rewriteVars, proxyVars, serviceVars>>

RegistryInit ==
    /\ rAgents = [a \in Agents |-> NoAgent]
    /\ rmu = 0
    /\ rpc = [t \in RegTasks |-> NoRegTask]
    /\ rCalls = 0
    /\ rClock = 0
    /\ rTouched = [a \in Agents |-> 0]
    /\ rLast = NoTouch

RegistryNext ==
    \/ \E t \in RegTasks, a \in Agents, p \in Providers, m \in Models :
           TouchLock(t, a, p, m)
    \/ \E t \in RegTasks : TouchAssign(t)
    \/ \E t \in RegTasks : TouchCount(t)
    \/ \E t \in RegTasks, a \in Agents, b \in BOOLEAN : RecordToolCall(t, a, b)
    \/ \E t \in RegTasks, a \in Agents, s \in {"active", "killed"} :
           RegSetStatus(t, a, s)
    \/ RegClockTick

ServiceInit == WatcherInit /\ FollowInit /\ HubInit /\ ApiInit

Init == AuditInit /\ EngineInit /\ RewriteIdle /\ ProxyInit /\ RegistryInit /\ BufferInit /\ ServiceInit

AuditNext ==
    \/ AdvanceDay
    \/ \E t \in Tasks, req \in AuditReqs : AppendBegin(t, req)
    \/ \E t \in Tasks, o \in WriteOutcomes : AppendWrite(t, o)
    \/ \E t \in Tasks, ok \in BOOLEAN : AppendFinish(t, ok)
    \/ Restart
    \/ Verify

AuditTamperNext ==
    \/ \E t \in Tasks, req \in AuditReqs : AppendBegin(t, req)
    \/ \E t \in Tasks, o \in WriteOutcomes : AppendWrite(t, o)
    \/ \E t \in Tasks, ok \in BOOLEAN : AppendFinish(t, ok)
    \/ Verify
    \/ \E d \in Days, i \in 1..MaxAppends, f \in TamperFields : Tamper(d, i, f)

EngineNext ==
    \/ \E r \in RuleInputs : AddRule(r)
    \/ \E n \in RuleNames : RemoveRule(n)
    \/ \E a \in Agents, tc \in EvalCalls : EvaluateCall(a, tc)

RewriteNext ==
    \/ RewriteBody
    \/ RewriteStream

ProxyNext ==
    \/ \E t \in Handlers, req \in Requests, o \in HandlerOutcomes : ServeKilled(t, req, o)
    \/ \E t \in Handlers, req \in Requests : ServeForward(t, req)
    \/ \E t \in Handlers : UpstreamError(t)
    \/ \E t \in Handlers, q \in Answers : PassThrough(t, q)
    \/ \E t \in Handlers, q \in Answers, o \in HandlerOutcomes : HandleNonStreaming(t, q, o)
    \/ \E t \in Handlers, q \in Answers, o \in HandlerOutcomes : HandleStreaming(t, q, o)
    \/ \E a \in Agents : Kill(a, TRUE)
    \/ \E a \in Agents : Revive(a, TRUE)

SpecAudit == Init /\ [][AuditNext]_vars

SpecAuditTamper == Init /\ [][AuditTamperNext]_vars

SpecEngine == Init /\ [][EngineNext]_vars

EngineTaskNext ==
    \/ \E f \in RulesFiles : WriteRulesFile(f)
    \/ \E t \in Tasks, r \in TaskRuleInputs : EngAddRule(t, r)
    \/ \E t \in Tasks, n \in TaskRuleNames : EngRemoveRule(t, n)
    \/ \E t \in Tasks : EngReload(t)
    \/ \E t \in Tasks : EngAssign(t)
    \/ \E t \in Tasks : EngUnlock(t)
    \/ \E t \in Tasks, tc \in EngineCalls : EngEvaluate(t, "main", tc)
    \/ \E t \in Tasks : EngEvaluated(t)

SpecEngineTasks == Init /\ [][EngineTaskNext]_vars

SpecEngineCalls == Init /\ [][EngineCallNext]_vars

\* A rewrite is about to be made on some input.
SpecHub == Init /\ [][HubNext]_vars

SpecRulesApi == Init /\ [][ApiNext]_vars

InitRewrite == AuditInit /\ EngineInit /\ RewriteInit /\ ProxyInit /\ RegistryInit /\ BufferInit /\ ServiceInit

SpecRewrite == InitRewrite /\ [][RewriteNext]_vars

SpecProxy == Init /\ [][ProxyNext]_vars

SpecRegistry == Init /\ [][RegistryNext]_vars

SpecBuffer == Init /\ [][BufferNext]_vars

\* The calls on killed.yaml when nobody revives the agent main: Kill of any
\* agent and Revive of the others, through the proxy and through commands.
KillOthersNext ==
    \/ \E a \in Agents, saved \in BOOLEAN : HandleAPIKill(a, saved)
    \/ \E a \in Agents \ {"main"}, saved \in BOOLEAN : HandleAPIRevive(a, saved)
    \/ HandleSetStatus
    \/ \E a \in Agents : ServeTouch(a)
    \/ \E a \in Agents : CliRun("kill", a)
    \/ \E a \in Agents \ {"main"} : CliRun("revive", a)
    \/ \E ok \in BOOLEAN : CliWrite(ok)
    \/ WatchKillSwitch

SpecKillOthers == Init /\ [][KillOthersNext]_vars

SpecWatcher == Init /\ [][WatcherNext]_vars

SpecFollow == Init /\ [][FollowNext]_vars

\* The ticker of Follow fires every 500 ms: a poll that can run does run.
SpecFollowFair == SpecFollow /\ WF_vars(FollowPoll)

SpecKillSwitch == Init /\ [][KillSwitchNext]_vars

SpecKillFile == Init /\ [][KillFileNext]_vars

\* The watcher goroutine reads every event it is sent, a handler that has
\* begun returns, a command that has truncated the file writes it.
SpecKillFileFair ==
    /\ Init /\ [][KillFileNext]_vars
    /\ WF_vars(WatchKillSwitch)
    /\ WF_vars(HandleSetStatus)
    /\ WF_vars(\E ok \in BOOLEAN : CliWrite(ok))

(***************************************************************************)
(* Properties of the audit log                                             *)
(***************************************************************************)
Persisted == readAllEntries

InAppend(t) == apc[t] # "idle"

\* C4: in every reachable state of the log (appends, failed appends, day
\* rotations, restarts) each persisted entry's prevHash equals the hash of the
\* entry persisted before it.
C4_ChainLinked ==
    \A i \in 2..Len(Persisted) : Persisted[i].prevHash = Persisted[i - 1].hash

\* C5: across appends (failed ones included) and restarts the seq of each
\* persisted entry is exactly one more than that of the entry before it.
C5_SeqDense ==
    \A i \in 2..Len(Persisted) : Persisted[i].seq = Persisted[i - 1].seq + 1

\* C6: concurrent appends are serialized: at most one task is inside append,
\* no two persisted entries share a seq or a prevHash, and the order of the
\* file is the order of seq and of the hash chain.
C6_Linearizable ==
    /\ Cardinality({t \in Tasks : InAppend(t)}) <= 1
    /\ \A i, j \in 1..Len(Persisted) :
          i < j => /\ Persisted[i].seq < Persisted[j].seq
                   /\ Persisted[i].prevHash # Persisted[j].prevHash
    /\ \A i \in 2..Len(Persisted) : Persisted[i].prevHash = Persisted[i - 1].hash

\* C7: the first append after a restart continues from the last entry L of the
\* most recent daily file (seq L.seq+1, prevHash L.hash), and from the genesis
\* entry (seq 1, prevHash the genesis hash) when no daily file holds an entry.
C7_ResumeAfterRestart ==
    (hist.restarts > 0 /\ hist.first # <<>>) =>
        LET e == hist.first[1] IN
        IF hist.tailAtStart # <<>>
        THEN /\ e.seq = hist.tailAtStart[1].seq + 1
             /\ e.prevHash = hist.tailAtStart[1].hash
        ELSE ~hist.anyAtStart => /\ e.seq = 1
                                 /\ e.prevHash = genesis[1].hash

C7_Witness ==
    /\ hist.restarts > 0
    /\ hist.first # <<>>
    /\ hist.tailAtStart # <<>>
    /\ Len(Persisted) >= 2
    /\ Persisted[Len(Persisted)] = hist.first[1]
    /\ Persisted[Len(Persisted) - 1] = hist.tailAtStart[1]

\* C8: Verify reports the smallest index whose hash does not match its
\* fields or whose prevHash is not the hash of the entry before it, and
\* reports valid exactly when there is no such index.
BrokenIndexes(P) ==
    {i \in 0..(Len(P) - 1) :
        \/ computeHash(P[i + 1]) # P[i + 1].hash
        \/ (i > 0 /\ P[i + 1].prevHash # P[i].hash)}

MinOf(S) == CHOOSE x \in S : \A y \in S : x <= y

C8_VerifyFirstBreak ==
    verifyRes.done =>
        LET B == BrokenIndexes(Persisted) IN
        /\ verifyRes.valid <=> B = {}
        /\ ~verifyRes.valid => verifyRes.brokenAt = MinOf(B)

\* three entries, the agent of the middle one edited: brokenAt = 1
C8_Witness ==
    /\ verifyRes.done
    /\ Len(Persisted) = 3
    /\ Persisted[2].agent = "tampered"
    /\ verifyEntry(Persisted[1])
    /\ verifyEntry(Persisted[3])
    /\ ~verifyRes.valid
    /\ verifyRes.brokenAt = 1

\* C9: once an append has failed without persisting its entry and a later
\* append has succeeded, Verify does not report the chain as valid.
C9_OmissionDetected ==
    (verifyRes.done /\ hist.okAfterOmit) => ~verifyRes.valid

(***************************************************************************)
(* Properties of the rule engine                                           *)
(***************************************************************************)
Matching(rules, agentID, tc) ==
    {i \in DOMAIN rules : matchesRule(rules[i], agentID, tc)}

\* C10: the decision Evaluate returns carries the action, name and message
\* of the first rule of the active ruleset that matches the call (allow, with
\* no rule, when none matches); a later matching rule never decides.
C10_FirstMatchWins ==
    eLast.called =>
        LET M == Matching(eLast.rules, eLast.agent, eLast.tc) IN
        IF M = {}
        THEN eLast.decision = Decision("allow", "", "")
        ELSE LET r == eLast.rules[MinOf(M)] IN
             eLast.decision = Decision(r.action, r.name, r.message)

\* two rules match, the later one with another action: the first decided
C10_Witness ==
    /\ eLast.called
    /\ \E i, j \in Matching(eLast.rules, eLast.agent, eLast.tc) :
          /\ i < j
          /\ eLast.rules[i].action # eLast.rules[j].action
          /\ eLast.decision.rule = eLast.rules[i].name
          /\ eLast.decision.action = eLast.rules[i].action

(***************************************************************************)
(* Properties of the rewriters                                             *)
(***************************************************************************)

\* C1: whatever a rewrite returns (a body or an event stream, in each of the
\* three formats) holds no tool invocation whose id is in the blocked set.
C1_NoBlockedEmitted ==
    rwOut.done =>
        (ToolIDsInBody(rwOut.body) \cup ToolIDsInEvents(rwOut.events))
            \cap IDsOf(rwIn.blocked) = {}

(***************************************************************************)
(* Properties of the request handler                                       *)
(***************************************************************************)
NamesOf(calls) == [i \in DOMAIN calls |-> calls[i].name]

\* C2: when the handler has sent the answer of a known API (streamed or not)
\* and no audit write failed, every invocation of the upstream answer was
\* evaluated and has exactly one entry in the audit log, in order.
C2_EvaluatedAndAudited ==
    (/\ served.set
     /\ served.forwarded
     /\ served.status = 200
     /\ WireFormat(served.req.path) # APITypeUnknown
     /\ ~served.appendFailed) =>
        LET inv == Invocations(WireFormat(served.req.path), served.items) IN
        /\ [i \in DOMAIN served.evaluated |-> served.evaluated[i].id]
               = [i \in DOMAIN inv |-> inv[i].id]
        /\ [i \in DOMAIN served.logged |-> served.logged[i].tool] = NamesOf(inv)
        /\ \A i \in DOMAIN served.logged :
              \E k \in DOMAIN Persisted : Persisted[k] = served.logged[i]

\* C3: a request whose agent is in the killed set when the kill switch is
\* asked is answered with 200 and the synthetic terminal answer, and is
\* never forwarded to the upstream.
C3_KilledNotForwarded ==
    /\ \A t \in Handlers : hpc[t] # "forwarded-killed"
    /\ (served.set /\ served.killedAtGate) =>
          /\ served.status = 200
          /\ ~served.forwarded
          /\ Len(served.body.content) = 1
          /\ served.body.content[1].name = KilledText
          /\ ToolIDsInBody(served.body) = {}
          /\ served.events = <<>>

C3_Witness ==
    /\ served.set
    /\ served.killedAtGate
    /\ served.status = 200
    /\ ~served.forwarded
    /\ served.body = buildKilledResponse(APITypeAnthropic)
    /\ \E t \in Handlers : hpc[t] = "forwarded"

(***************************************************************************)
(* Properties of the rule engine under load, mutation and reload           *)
(***************************************************************************)

\* C11: whenever no mutator is at work the active ruleset is the enabled
\* built-in rules in catalogue order followed by the custom rules in their
\* declared order: no custom rule before a built-in one, no disabled
\* built-in rule present.
C11_BuiltinsThenCustom ==
    emu.writer = NoTask =>
        \E k \in 0..Len(eRules) :
            /\ SubSeq(eRules, k + 1, Len(eRules)) = eCustom
            /\ \A i \in 1..k : eRules[i].builtin /\ eToggles[eRules[i].name]
            /\ \A i, j \in 1..k :
                  i < j => \E a, b \in DOMAIN builtinRules :
                              a < b /\ builtinRules[a] = eRules[i] /\ builtinRules[b] = eRules[j]
            /\ \A b \in DOMAIN builtinRules :
                  eToggles[builtinRules[b].name] =>
                      \E i \in 1..k : eRules[i] = builtinRules[b]

\* a reload has put two custom rules behind a changed set of built-ins
C11_Witness ==
    /\ emu.writer = NoTask
    /\ eReload.done /\ ~eReload.failed
    /\ Len(eCustom) = 2
    /\ eToggles # defaultBuiltinToggles
    /\ Len(eRules) > Len(eCustom)

\* C12: an Evaluate that is scanning has read a complete ruleset, the one
\* from before or the one from after the mutation at hand, and no mutator
\* is storing a ruleset while it scans.
C12_OldOrNew ==
    \A t \in Tasks :
        epc[t] = "eval" =>
            /\ eloc[t].obs.len = Len(eloc[t].obs.rules)
            /\ eloc[t].obs.rules \in {eloc[t].before, eloc[t].after}
            /\ eStore = <<>>
            /\ eloc[t].obs.rules = eRules
            /\ eloc[t].decision = Evaluate(eRules, eloc[t].agent, eloc[t].tc)

\* two tasks scan at once, after a mutation has changed the ruleset
C12_Witness ==
    /\ \A t \in Tasks : t <= 2 => epc[t] = "eval" /\ eloc[t].obs.rules = eRules
    /\ eRules # rebuild(defaultBuiltinToggles, <<>>)

\* C13: a Reload that failed (file unreadable or unparsable, or a pattern
\* that does not compile) has left the active ruleset, the custom rules and
\* the toggles as they were when it took the lock.
C13_FailedReloadRetains ==
    \A t \in Tasks :
        (epc[t] = "stored" /\ eloc[t].op = "reload" /\ eloc[t].new.err) =>
            /\ ThisEngine = eloc[t].old
            /\ eStore = <<>>

\* a reload of a file with a bad pattern failed on an engine with a custom rule
C13_Witness ==
    \E t \in Tasks :
        /\ epc[t] = "stored" /\ eloc[t].op = "reload" /\ eloc[t].new.err
        /\ eFile.kind = "ok"
        /\ eCustom # <<>>
        /\ eCustom # eFile.rules


\* C14: right after Kill(a) returns, IsKilled(a) is true, whether or not the
\* list could be saved; right after Revive(a) returns, IsKilled(a) is false.
C14_KillThenIsKilled ==
    /\ kLast.op = "kill" => IsKilled(kLast.agent)
    /\ kLast.op = "revive" => ~IsKilled(kLast.agent)

\* Revive has returned for an agent that Kill had put in the set.
C14_Witness ==
    /\ kLast.op = "revive"
    /\ kLast.agent \in kLast.before.killed
    /\ kLast.agent \notin AgentsOf(kLast.file.entries)

\* C15: a Reload that reads killed.yaml while another process writes it reads
\* the complete list of before the write or the complete list of after it.
C15_ReaderSeesWholeList ==
    kRead.set => kRead.content \in {kRead.before, kRead.after}

\* C16: after a Reload that returned no error, the in-memory set is exactly
\* the set of the agents the file listed when it was read, and the entries
\* are the file's.
C16_ReloadEqualsFile ==
    (kLast.op = "reload" /\ ~kLast.err) =>
        /\ killed = AgentsOf(kLast.file.entries)
        /\ kEntries = kLast.file.entries

\* Reload has dropped an agent the set held and the file does not list.
C16_Witness ==
    /\ kLast.op = "reload"
    /\ ~kLast.err
    /\ kLast.file.entries # <<>>
    /\ kLast.before.killed \ AgentsOf(kLast.file.entries) # {}

\* C17: Kill of an agent that is killed and Revive of an agent that is not
\* change neither the set, nor the entries, nor the file, and return no
\* error; a Kill of an agent that was not killed leaves one entry for it.
C17_Idempotent ==
    /\ (\/ kLast.op = "kill" /\ kLast.agent \in kLast.before.killed
        \/ kLast.op = "revive" /\ kLast.agent \notin kLast.before.killed)
       => /\ ThisKillSwitch = kLast.before
          /\ kLast.saved = kLast.file
          /\ ~kLast.err
    /\ kLast.op = "kill" /\ kLast.agent \notin kLast.before.killed
       => Len(SelectSeq(kEntries, LAMBDA e : e = kLast.agent)) = 1

\* Kill has returned for an agent that was killed already and whose entry
\* is on file.
C17_Witness ==
    /\ kLast.op = "kill"
    /\ kLast.agent \in kLast.before.killed
    /\ kLast.agent \in AgentsOf(kLast.saved.entries)

\* C18: every agent killed.yaml lists and the registry has a record of has
\* the status "killed" in the registry.
C18_ListedHasKilledStatus ==
    \A a \in Agents :
        (a \in AgentsOf(ksFile.entries) /\ regStatus[a] # "") => regStatus[a] = "killed"

\* C19: once another process has written killed.yaml with agent a added, the
\* proxy's IsKilled(a) becomes true (or somebody revives a first).
C19_ExternalKillTakesEffect ==
    \A a \in Agents : (a \in kAdded) ~> (IsKilled(a) \/ a \notin kAdded)


C21_IndexesContiguous ==
    (rwOut.done /\ rwIn.stream) =>
        LET blocks == SelectSeq(rwOut.events,
                          LAMBDA e : e.ev \in {"content_block_start", "content_block_delta",
                                               "content_block_stop"})
            frags == SelectSeq(rwOut.events, LAMBDA e : e.ev = "chunk" /\ e.type = "tool_calls")
        IN /\ rwIn.apiType = APITypeAnthropic =>
                \A j \in DOMAIN blocks : blocks[j].index = (j - 1) \div 3
           /\ rwIn.apiType = APITypeOpenAI =>
                \A j \in DOMAIN frags : frags[j].index = (j - 1) \div 2

\* C22: after the rewrite of a response with a blocked tool call, the body or
\* the event stream sent to the client holds no tool call at all.
C22_WholeResponseStripped ==
    (rwOut.done /\ rwIn.blocked # <<>>) =>
        /\ ToolIDsInBody(rwOut.body) = {}
        /\ ToolIDsInEvents(rwOut.events) = {}

\* C24: when RemoveRule(r.name) is called right after an AddRule(r) that
\* succeeded, the active ruleset after it is the ruleset before the AddRule,
\* members and order.
C24_AddThenRemove ==
    (eCall.op = "remove" /\ eCall.paired) => eRules = eCall.pre

C26_ActiveRulesCompiled ==
    \A i \in DOMAIN eRules : eRules[i].commandRegex # BadRegex

\* AddRule or a load has refused a rule with a malformed pattern.
C26_Witness ==
    /\ eCall.err
    /\ \/ eCall.op = "add" /\ eCall.name = "bad_pattern"
       \/ /\ eCall.op = "reload"
          /\ eFile.kind = "ok"
          /\ \E i \in DOMAIN eFile.rules : eFile.rules[i].commandRegex = BadRegex

\* C27: a Decision with an empty rule name is the default allow, returned
\* when no rule of the active ruleset matched the call.
C27_EmptyRuleNameIsDefault ==
    (eCall.op = "eval" /\ eCall.decision.rule = "") =>
        /\ eCall.decision.action = "allow"
        /\ \A i \in DOMAIN eCall.before.rules :
              ~matchesRule(eCall.before.rules[i], eCall.agent, eCall.tc)

\* C30: every Touch(a, p, m), also beside other registry calls, adds exactly 1
\* to the agent's totalRequests (the counter equals the number of Touch calls
\* that returned), leaves provider = p and model = m, does not move lastSeen
\* back, and registers an unknown agent as active.
C30_TouchCounts ==
    /\ \A a \in Agents :
           \A t \in RegTasks : rpc[t].pc = "idle" \/ rpc[t].agent # a
           => rAgents[a].totalRequests = rTouched[a]
    /\ rLast.set =>
           /\ rLast.after.known
           /\ rLast.after.totalRequests = rLast.before.totalRequests + 1
           /\ rLast.after.provider = rLast.provider
           /\ rLast.after.model = rLast.model
           /\ rLast.after.lastSeen >= rLast.before.lastSeen
           /\ ~rLast.before.known => rLast.after.status = "active"
           /\ rLast.before.known => rLast.after.status = rLast.before.status

\* A Touch of a known agent returned while the clock had moved on, the agent
\* had tool calls recorded and another provider before.
C30_Witness ==
    /\ rLast.set
    /\ rLast.before.known
    /\ rLast.before.provider # rLast.provider
    /\ rLast.before.totalToolCalls > 0
    /\ rLast.after.lastSeen > rLast.before.lastSeen
    /\ rLast.after.totalRequests = 2

\* C29: when the buffering deadline elapses before a terminal marker was read,
\* bufferAll returns exactly the events the parser had read by then, and
\* these are the events that are reconstructed, evaluated and replayed.
C29_DeadlineKeepsEvents ==
    (bOut.done /\ bOut.timedOut /\ ~bOut.terminal) =>
        /\ bOut.events = bOut.arrived
        /\ bOut.evaluated = reconstruct(DataOf(bOut.arrived), bIn.apiType)
        /\ bOut.blocked = <<>> => bOut.emitted = replay(bOut.arrived)

\* The events of a stream as its reader gets them: the frames with data,
\* keep-alive pings aside, each with its name and the lines of its payload.
ClientEvents(frames) ==
    LET withData == SelectSeq(frames, LAMBDA f : f.lines > 0 /\ f.event # "ping")
    IN [i \in DOMAIN withData |->
           SSEEvent(withData[i].event, withData[i].lines, withData[i].evt)]

\* C23: when no tool call of a streamed response is blocked, the events sent
\* to the client are the events read from upstream, one for one (keep-alive
\* pings and comment lines aside).
C23_UnblockedStreamIdentical ==
    (bOut.done /\ bOut.blocked = <<>>) =>
        ClientEvents(bOut.emitted) = ClientEvents(SubSeq(bIn.frames, 1, bRead))

\* The response a handler sends for a request and an answer of the upstream
\* when every audit append succeeds.
ResponseOf(how, req, items) ==
    LET route == ParseRoute(req)
        body == UpstreamBody(WireFormat(route.apiPath), items)
        events == UpstreamEvents(WireFormat(route.apiPath), items)
        inBody == BlockedOf(route.agentID, Extract(body, route.apiType))
        inStream == BlockedOf(route.agentID, reconstruct(events, route.apiType))
    IN CASE how = "respondKilled" ->
                [status |-> 200, body |-> buildKilledResponse(route.apiType),
                 events |-> <<>>]
         [] how = "handleNonStreaming" ->
                [status |-> 200,
                 body |-> IF Len(inBody) > 0
                          THEN modifyNonStreamingResponse(body, route.apiType, inBody,
                                                          Decisions(route.agentID, inBody))
                          ELSE body,
                 events |-> <<>>]
         [] how = "handleStreaming" ->
                [status |-> 200, body |-> NoBody,
                 events |-> IF Len(inStream) > 0
                            THEN buildModifiedStream(events, route.apiType, inStream,
                                                     BlockMessages(inStream))
                            ELSE events]
         [] OTHER -> [status |-> 0, body |-> NoBody, events |-> <<>>]

C36_FailedReloadKeepsSet ==
    (kLast.op = "reload" /\ kLast.err) => killed = kLast.before.killed

\* C37: a Kill or Revive that returns the error of the write leaves the
\* in-memory killed set as it found it, so the set is the list last written.
C37_FailedSaveKeepsSet ==
    (kLast.op \in {"kill", "revive"} /\ kLast.err) =>
        /\ killed = kLast.before.killed
        /\ kEntries = kLast.before.entries

\* C35: while nobody calls Revive for the agent main, IsKilled(main) of the
\* proxy, once true, stays true, whatever is done for the other agents
\* through the proxy, through commands and by the watcher's Reload.
C35_KilledStaysKilled ==
    [][IsKilled("main") => IsKilled("main")']_vars

\* C31: a forwarded request whose path is of no known wire format gets the
\* upstream answer as it is: passThrough sends it, no tool call is evaluated,
\* no audit entry is written, the body and the events are the upstream's.
C31_UnknownPassesThrough ==
    (/\ served.set
     /\ served.forwarded
     /\ served.how # "error"
     /\ WireFormat(served.req.path) = APITypeUnknown) =>
        /\ served.how = "passThrough"
        /\ served.status = 200
        /\ served.evaluated = <<>>
        /\ served.logged = <<>>
        /\ ~served.appendFailed
        /\ served.body = Payload(served.req, served.items).body
        /\ served.events = Payload(served.req, served.items).events

\* An answer with a destructive command went through on an unknown path.
C31_Witness ==
    /\ served.set
    /\ served.how = "passThrough"
    /\ WireFormat(served.req.path) = APITypeUnknown
    /\ ~served.req.stream
    /\ \E i \in DOMAIN served.items : served.items[i].cmd = "rm -rf /"
    /\ \E i \in DOMAIN served.body.content : served.body.content[i].cmd = "rm -rf /"

C40_IndexCompleteAfterRecovery ==
    (hist.restarts > 0 /\ hist.first = <<>> /\ \A t \in Tasks : apc[t] = "idle") =>
        \A i \in DOMAIN readAllEntries :
            \E r \in index : r[1] = readAllEntries[i].seq

\* The seqs of the entries on disk that were appended after Follow started.
AppendedSinceFollow ==
    {readAllEntries[i].seq : i \in DOMAIN readAllEntries} \cap {n \in 1..MaxAppends : n > fStart}

\* C33: the entries Follow hands to the callback come in increasing seq, each
\* once, and while Follow is not cancelled every entry appended after it
\* started is handed over at some time.
C33_FollowDeliversAll ==
    /\ [](\A i, j \in DOMAIN fDelivered : i < j => fDelivered[i] < fDelivered[j])
    /\ \A n \in 1..MaxAppends :
           (fpc = "following" /\ n \in AppendedSinceFollow)
               ~> (fCancelled \/ \E i \in DOMAIN fDelivered : fDelivered[i] = n)

\* C34: a subscriber whose queue a broadcast found full is out of the hub and
\* gets no later message, the other subscribers of that broadcast get the
\* message, and neither the range of the hub nor broadcast ever has to wait.
C34_FullQueueDropped ==
    /\ \A c \in Conns :
           dropAt[c] > 0 =>
               /\ c \notin connections
               /\ wsGot[c] < dropAt[c]
               /\ \A i \in DOMAIN send[c] : send[c][i] < dropAt[c]
    /\ (hubLast.set /\ hubpc = "select") =>
           /\ hubLast.start = hubLast.got \cup hubLast.full
           /\ hubLast.got \cap hubLast.full = {}
    /\ (hubPanic = "" /\ hubpc = "range" /\ hubRest # {}) =>
           \A c \in hubRest : ENABLED HubDeliver(c)
    /\ (hubPanic = "" /\ hubSent < MaxBroadcasts) => ENABLED Broadcast

C34_Witness ==
    /\ hubpc = "select"
    /\ dropAt[1] > 0
    /\ hubLast.msg > dropAt[1]
    /\ hubLast.got = {2}
    /\ Len(send[2]) > 0
    /\ send[2][Len(send[2])] = hubLast.msg
    /\ hubSent = MaxBroadcasts

\* C39: whatever the order of broadcasts, full-queue drops and disconnects,
\* no subscriber's send queue is closed twice and the hub never sends on a
\* closed queue.
C39_ClosedOnce ==
    /\ \A c \in Conns : sendClosed[c] <= 1
    /\ hubPanic = ""

C39_Witness ==
    /\ dropAt[1] > 0
    /\ wspc[1] = "gone"
    /\ sendClosed[1] = 1
    /\ dropAt[2] = 0
    /\ wspc[2] = "gone"
    /\ sendClosed[2] = 1
    /\ hubSent = MaxBroadcasts
    /\ broadcastCh = <<>>
    /\ hubpc = "select"

\* C38: a rule AddRule returned nil for is in the engine's custom rules and
\* in the active ruleset as long as RemoveRule was not called with its name
\* (nothing but the dashboard writes rules.yaml here).
C38_AddedRuleStays ==
    \A n \in apiAdded \ apiRemoved :
        /\ \E i \in DOMAIN eCustom : eCustom[i].name = n
        /\ \E i \in DOMAIN eRules : eRules[i].name = n /\ ~eRules[i].builtin

====
